---- MODULE Spec2Model ----
(***************************************************************************)
(* OECD dashboard (Streamlit): the table loader with its memoization cache, *)
(* the section renderers that app.py dispatches to, the unit normalizer and *)
(* the filter/aggregate pipelines of the sections.                          *)
(***************************************************************************)
EXTENDS Integers, Sequences, FiniteSets, TLC

(***************************************************************************)
(* Bounds of the model.                                                     *)
(***************************************************************************)
\* how many times the one-off upload script is run during one app process
MaxUploads == 1

(***************************************************************************)
(* Tables (pandas DataFrames): a set of column names and a sequence of rows, *)
(* each row a record over the columns.  A missing string is NA.             *)
(***************************************************************************)
NA == "<NA>"

BaseColumns ==
  {"Reference_area", "Year", "Measure", "Value", "Unit_multiplier",
   "Unit_of_measure", "Nutrients"}

Row(a, y, m, v, mult, unit, nut) ==
  [Reference_area |-> a, Year |-> y, Measure |-> m, Value |-> v,
   Unit_multiplier |-> mult, Unit_of_measure |-> unit, Nutrients |-> nut]

Table(rs) == [columns |-> BaseColumns, rows |-> rs]

\* df[mask]: the rows that satisfy the predicate, in their order, as a new frame
Filter(df, P(_)) == [columns |-> df.columns, rows |-> SelectSeq(df.rows, P)]

IsEmpty(df) == Len(df.rows) = 0

\* df[col] = f(row): adds (or overwrites) a column of the frame
WithColumn(df, col, F(_)) ==
  [columns |-> df.columns \cup {col},
   rows |-> [i \in 1..Len(df.rows) |->
               [c \in df.columns \cup {col} |->
                  IF c = col THEN F(df.rows[i]) ELSE df.rows[i][c]]]]

Range(s) == {s[i] : i \in 1..Len(s)}

(***************************************************************************)
(* utils/db.py and upload_data.py: the four relations.                      *)
(***************************************************************************)
TableNames == {"agri", "area", "water", "energy"}

\* An optional value is a sequence of length at most one.
None == << >>
Some(x) == << x >>
Get(o) == o[1]

\* The cleaned CSV files the upload script may find on disk: per relation one
\* file with current observations and a second one that is empty or holds
\* only observations the sections filter out.
CsvFiles(name) ==
  CASE name = "agri" ->
         << Table(<< Row("France", 2015, "Nutrient balance", 5, "Units",
                        "Kilograms per hectare", "Nitrogen"),
                    Row("Germany", 2015, "Total greenhouse gas emissions", 7,
                        "Thousands", "Tonnes", NA) >>),
           Table(<< >>) >>
    [] name = "area" ->
         << Table(<< Row("France", 2015, "Arable land", 3, "Thousands",
                        "Hectares", NA),
                    Row("France", 2015, "Total agricultural land", 4, "Millions",
                        "Hectares", NA) >>),
           Table(<< Row("Germany", 2001, "Permanent pasture", 2, NA,
                        "Hectares", NA) >>) >>
    [] name = "water" ->
         << Table(<< Row("France", 2015, "Total freshwater abstraction", 6,
                        "Millions", "Cubic metres", NA) >>),
           Table(<< >>) >>
    [] name = "energy" ->
         << Table(<< Row("France", 2015, "Total final energy consumption", 2000,
                        "Thousands", "Tonnes of oil equivalent", NA) >>),
           Table(<< Row("France", 1980, "Total final energy consumption", 1500,
                        "Thousands", "Tonnes of oil equivalent", NA) >>) >>

VARIABLES
  db,        \* the relations of the database: name -> Some(Table), or None
             \*   when the database has no such relation
  uploads,   \* runs of upload_data.py so far
  cache,     \* st.cache_data of load_table: name -> Some(Table) or None
  pc,        \* "idle", or the position of the running script: "load", "body"
  section,   \* the sidebar selection of the last run (NA: a direct call)
  renderer,  \* the renderer function that run entered
  pending,   \* the load_table calls the running renderer has still to make
  frames,    \* the frames load_table returned to this run: name -> None or
             \*   Some([ret: the Table as load_table returned it,
             \*         obj: the present value of that object,
             \*         shared: the object is the cache's own entry])
  lastOp,    \* what the last load_table call of this run did
  outcome,   \* how the last run ended: "none", "ok", or the error raised
  returned,  \* history: what load_table returned first, per name
  prevFail,  \* history: the name whose load ended the run before this one,
             \*   or NA when that run got past its loads
  download,  \* the st.download_button the last run reached: None, or
             \*   Some(the name of the table it serializes)
  \* the pipelines taken alone (specifications SpecNorm, SpecTopK, SpecKpi):
  fn,        \* "input", or the code place that was applied last
  arg,       \* the frames and widget values the place is applied to
  res,       \* what it produced
  ref,       \* history: inputs and result of an earlier application
  \* load_table called by the script threads of several sessions at once
  \* (specification SpecConc):
  threads,   \* per session: where its load_table call is, the name it asked
             \*   for and the frame it got
  locks,     \* the cache's compute lock per name: its holder, or 0
  queries    \* history: per name, the SELECTs that returned a table (ok) and
             \*   the attempts that raised (failed)

app_vars == <<db, uploads, cache, pc, section, renderer, pending, frames,
              lastOp, outcome, returned, prevFail, download>>

pipe_vars == <<fn, arg, res, ref>>

conc_vars == <<threads, locks, queries>>

vars == <<app_vars, pipe_vars, conc_vars>>

(***************************************************************************)
(* utils/db.py: load_table under @st.cache_data.  The decorator keeps one   *)
(* entry per argument value, with no ttl and no max_entries, stores the      *)
(* value only when the function returns, and hands every caller its own     *)
(* copy of the stored value.  The function body connects (which fails when   *)
(* the server is unreachable) and then runs SELECT * FROM <table_name>       *)
(* (which fails when the relation does not exist).  Whether the server is    *)
(* reachable at the time of a call is an input of the call.                  *)
(***************************************************************************)
NoOp == [name |-> NA, op |-> "none", err |-> "none", attempts |-> 0,
         server |-> "unused"]

\* What one load_table call did.  op: "hit" (served from the cache),
\* "connect" (the connection failed before any query) or "query" (the SELECT
\* was issued); err: the exception raised; entry: the cache entry of the name
\* after the call; df: the frame returned; shared: df is the cached object
\* itself; attempts: how many times the body went to the server.
Call(op, err, entry, df, shared, attempts) ==
  [op |-> op, err |-> err, entry |-> entry, df |-> df, shared |-> shared,
   attempts |-> attempts]

\* plausible slips of the loader, used to test that the properties see them
load_table_uncached(table_name, reachable) ==
  IF ~reachable
    THEN Call("connect", "OperationalError", None, None, FALSE, 1)
  ELSE IF db[table_name] = None
    THEN Call("query", "ProgrammingError", None, None, FALSE, 1)
  ELSE Call("query", "none", db[table_name], db[table_name], FALSE, 1)

load_table_by_reference(table_name, reachable) ==
  IF cache[table_name] # None
    THEN Call("hit", "none", cache[table_name], cache[table_name], TRUE, 0)
  ELSE IF ~reachable
    THEN Call("connect", "OperationalError", None, None, FALSE, 1)
  ELSE IF db[table_name] = None
    THEN Call("query", "ProgrammingError", None, None, FALSE, 1)
  ELSE Call("query", "none", db[table_name], db[table_name], TRUE, 1)

load_table_swallowing_errors(table_name, reachable) ==
  IF cache[table_name] # None
    THEN Call("hit", "none", cache[table_name], cache[table_name], FALSE, 0)
  ELSE IF ~reachable
    THEN Call("connect", "OperationalError", Some(Table(<< >>)), None, FALSE, 1)
  ELSE IF db[table_name] = None
    THEN Call("query", "ProgrammingError", Some(Table(<< >>)), None, FALSE, 1)
  ELSE Call("query", "none", db[table_name], db[table_name], FALSE, 1)

\* a second try after a failed one
load_table_retrying(table_name, reachable) ==
  IF cache[table_name] # None
    THEN Call("hit", "none", cache[table_name], cache[table_name], FALSE, 0)
  ELSE IF ~reachable
    THEN Call("connect", "OperationalError", None, None, FALSE, 2)
  ELSE IF db[table_name] = None
    THEN Call("query", "ProgrammingError", None, None, FALSE, 2)
  ELSE Call("query", "none", db[table_name], db[table_name], FALSE, 1)

\* a missing relation answered with an empty frame
load_table_missing_as_empty(table_name, reachable) ==
  IF cache[table_name] # None
    THEN Call("hit", "none", cache[table_name], cache[table_name], FALSE, 0)
  ELSE IF ~reachable
    THEN Call("connect", "OperationalError", None, None, FALSE, 1)
  ELSE IF db[table_name] = None
    THEN Call("query", "none", Some(Table(<< >>)), Some(Table(<< >>)), FALSE, 1)
  ELSE Call("query", "none", db[table_name], db[table_name], FALSE, 1)

load_table(table_name, reachable) ==
  IF cache[table_name] # None
    THEN Call("hit", "none", cache[table_name], cache[table_name], FALSE, 0)
  ELSE IF ~reachable
    THEN Call("connect", "OperationalError", None, None, FALSE, 1)
  ELSE IF db[table_name] = None
    THEN Call("query", "ProgrammingError", None, None, FALSE, 1)
  ELSE Call("query", "none", db[table_name], db[table_name], FALSE, 1)

(***************************************************************************)
(* app.py: the sidebar and the dispatch; sections/advanced.py: the mode.     *)
(***************************************************************************)
Sections ==
  <<"1. Introduction", "2. Environmental Impact", "3. Emissions & Chemicals",
    "4. Land Use", "5. Water Use", "6. Energy Use", "7. Advanced Analysis">>

\* the two modes of sections/advanced.py (labels without their pictograms)
AnalysisModes == {"Single Country Report", "Compare Multiple Countries"}

section_advanced(option) ==
  IF option = "Single Country Report" THEN "single_country_report"
  ELSE IF option = "Compare Multiple Countries" THEN "compare_countries_report"
  ELSE NA

\* a slip: a branch of the chain calling its neighbour's renderer
Dispatch_water_as_area(label, option) ==
  IF label = "1. Introduction" THEN "section_intro"
  ELSE IF label = "2. Environmental Impact" THEN "section_environment"
  ELSE IF label = "3. Emissions & Chemicals" THEN "section_emissions"
  ELSE IF label = "4. Land Use" THEN "section_area"
  ELSE IF label = "5. Water Use" THEN "section_area"
  ELSE IF label = "6. Energy Use" THEN "section_energy"
  ELSE IF label = "7. Advanced Analysis" THEN section_advanced(option)
  ELSE NA

Dispatch(label, option) ==
  IF label = "1. Introduction" THEN "section_intro"
  ELSE IF label = "2. Environmental Impact" THEN "section_environment"
  ELSE IF label = "3. Emissions & Chemicals" THEN "section_emissions"
  ELSE IF label = "4. Land Use" THEN "section_area"
  ELSE IF label = "5. Water Use" THEN "section_water"
  ELSE IF label = "6. Energy Use" THEN "section_energy"
  ELSE IF label = "7. Advanced Analysis" THEN section_advanced(option)
  ELSE NA

\* renderers that no sidebar entry reaches: the top-level water.py and
\* sections/summary.py
Unwired == {"water_py_section_water", "section_summary"}

\* a slip: the table name built from a value of the run
Loads_named_after_renderer(r) == << r >>

\* the load_table calls each renderer opens with, in order
Loads(r) ==
  CASE r = "section_intro" -> <<"agri", "area", "water", "energy">>
    [] r = "section_environment" -> <<"agri", "area">>
    [] r = "section_emissions" -> <<"agri">>
    [] r = "section_area" -> <<"area">>
    [] r = "section_water" -> <<"agri">>
    [] r = "section_energy" -> <<"energy">>
    [] r = "single_country_report" -> <<"agri", "area", "energy", "water">>
    [] r = "compare_countries_report" -> <<"agri", "area", "energy", "water">>
    [] r = "water_py_section_water" -> <<"water">>
    [] r = "section_summary" -> <<"agri", "energy">>

NoFrames == [n \in TableNames |-> None]

Enter(label, r) ==
  /\ pc = "idle"
  /\ pc' = "load"
  /\ section' = label
  /\ renderer' = r
  /\ pending' = Loads(r)
  /\ frames' = NoFrames
  /\ lastOp' = NoOp
  /\ outcome' = "running"
  /\ prevFail' = IF lastOp.err # "none" THEN lastOp.name ELSE NA
  /\ download' = None
  /\ UNCHANGED <<db, uploads, cache, returned, pipe_vars, conc_vars>>

\* one user interaction: Streamlit reruns app.py from the top
app ==
  \E i \in 1..Len(Sections), option \in AnalysisModes :
    Enter(Sections[i], Dispatch(Sections[i], option))

\* a renderer of Unwired entered directly
direct_call == \E r \in Unwired : Enter(NA, r)

\* the next load_table call of the running renderer
call_load_table ==
  /\ pc = "load"
  /\ pending # << >>
  /\ \E reachable \in BOOLEAN :
     LET name == Head(pending)
         call == load_table(name, reachable)
     IN /\ lastOp' = [name |-> name, op |-> call.op, err |-> call.err,
                      attempts |-> call.attempts,
                      server |-> IF call.op = "hit" THEN "unused"
                                 ELSE IF reachable THEN "up" ELSE "down"]
        /\ cache' = [cache EXCEPT ![name] = call.entry]
        /\ IF call.err = "none"
             THEN /\ frames' = [frames EXCEPT ![name] =
                                  Some([ret |-> Get(call.df), obj |-> Get(call.df),
                                        shared |-> call.shared])]
                  /\ pending' = Tail(pending)
                  /\ pc' = IF Tail(pending) = << >> THEN "body" ELSE "load"
                  /\ outcome' = outcome
                  /\ returned' = IF returned[name] = None
                                   THEN [returned EXCEPT ![name] = call.df]
                                   ELSE returned
             ELSE \* the exception leaves the renderer and ends the script run
                  /\ frames' = frames
                  /\ pending' = << >>
                  /\ pc' = "idle"
                  /\ outcome' = call.err
                  /\ returned' = returned
  /\ UNCHANGED <<db, uploads, section, renderer, prevFail, download, pipe_vars, conc_vars>>

(***************************************************************************)
(* The unit normalizer, as each place writes it:                             *)
(*   Value * Unit_multiplier.map(multiplier_map).fillna(1)                   *)
(***************************************************************************)
\* Series.map(dict): the dict's value, or missing when the key is not in it
MapDict(dict, key) == IF key \in DOMAIN dict THEN Some(dict[key]) ELSE None

\* Series.fillna(value)
FillNa(o, value) == IF o = None THEN value ELSE Get(o)

area_multiplier_map_billions_as_millions ==
  [Millions |-> 1000000, Thousands |-> 1000, Units |-> 1, Billions |-> 1000000]

area_multiplier_map ==
  [Millions |-> 1000000, Thousands |-> 1000, Units |-> 1, Billions |-> 1000000000]

\* a slip: the fallback for an unmapped label written as 0
AreaValueNorm_fill_zero(row) ==
  row.Value * FillNa(MapDict(area_multiplier_map, row.Unit_multiplier), 0)

\* sections/area.py
AreaValueNorm(row) ==
  row.Value * FillNa(MapDict(area_multiplier_map, row.Unit_multiplier), 1)

water_multiplier_map ==
  [Millions |-> 1000000, Thousands |-> 1000, Units |-> 1, Billions |-> 1000000000]

\* water.py, the 2012-2021 frame
WaterValueNormalized(row) ==
  row.Value * FillNa(MapDict(water_multiplier_map, row.Unit_multiplier), 1)

\* water.py, the surface/ground water frame
SgValueNorm(row) ==
  row.Value * FillNa(MapDict(water_multiplier_map, row.Unit_multiplier), 1)

(***************************************************************************)
(* Widgets.                                                                 *)
(***************************************************************************)
\* st.selectbox(label, options): one of the options; None when there is none
Selectbox(options) == IF options = {} THEN {None} ELSE {Some(o) : o \in options}

\* Series.dropna().unique() of a column
Unique(df, col) == {df.rows[i][col] : i \in 1..Len(df.rows)} \ {NA}

\* str.contains(pattern, case=False) for the patterns the sections use is
\* decided per measure name below
ContainsTotal(m) ==
  m \in {"Total agricultural land", "Total greenhouse gas emissions",
         "Total freshwater abstraction", "Total final energy consumption",
         "Total sales of agricultural pesticides"}

(***************************************************************************)
(* The end of a script run: the outcome, and the writes the renderer made to *)
(* the frames it was given (a write to a shared frame is a write to the      *)
(* cache entry).                                                            *)
(***************************************************************************)
\* the table each renderer hands to st.download_button at its end; None for
\* a renderer without one
download_button(r) ==
  CASE r = "section_environment" -> Some("df_norm")
    [] r = "section_water" -> Some("df_selected")
    [] r = "section_energy" -> Some("energy_subset")
    [] r = "single_country_report" -> Some("agri_country")
    [] r = "compare_countries_report" -> Some("df_kpi")
    [] r = "water_py_section_water" -> Some("water_filtered")
    [] r = "section_summary" -> Some("df_summary")
    [] OTHER -> None

FinishAt(err, newFrames, button) ==
  /\ pc' = "idle"
  /\ outcome' = IF err = "none" THEN "ok" ELSE err
  /\ download' = IF err = "none" THEN button ELSE None
  /\ frames' = newFrames
  /\ cache' = [n \in TableNames |->
                 IF newFrames[n] # None /\ Get(newFrames[n]).shared
                   THEN Some(Get(newFrames[n]).obj) ELSE cache[n]]
  /\ UNCHANGED <<db, uploads, section, renderer, pending, lastOp, returned,
                 prevFail, pipe_vars, conc_vars>>

Finish(err, newFrames) == FinishAt(err, newFrames, download_button(renderer))

InBody(r) == pc = "body" /\ renderer = r

Frame(name) == Get(frames[name]).obj

(***************************************************************************)
(* The renderers, after their load_table calls.  What is kept of each body   *)
(* is what decides whether it runs to its end and what it writes to the      *)
(* frames it was given; the tables each one derives are modelled with the    *)
(* pipelines further down.                                                  *)
(***************************************************************************)
\* sections/intro.py: the four frames are shown as they are
section_intro ==
  /\ InBody("section_intro")
  /\ Finish("none", frames)

EnvFromYear == 2012

ContainsArable(m) == m \in {"Arable land", "Arable land and permanent crops"}

\* pd.merge(left, right, on=["Reference area", "Year"]): the pairs of rows
\* that agree on both keys
MergeOnAreaYear(left, right) ==
  {<<i, j>> \in (1..Len(left.rows)) \X (1..Len(right.rows)) :
     /\ left.rows[i].Reference_area = right.rows[j].Reference_area
     /\ left.rows[i].Year = right.rows[j].Year}

\* sections/environment.py.  np.percentile of an empty array raises
\* IndexError in the numpy releases from 1.22 on and returns nan in the
\* older ones: either may happen.  A surplus per hectare is missing only as
\* 0/0.
section_environment ==
  /\ InBody("section_environment")
  /\ LET agri == Frame("agri")
         area == Frame("area")
     IN \E nutrient \in Selectbox(Unique(agri, "Nutrients")),
           percentile_raises \in BOOLEAN :
          LET agri_filtered ==
                Filter(agri, LAMBDA r : Some(r.Nutrients) = nutrient
                                        /\ r.Year >= EnvFromYear)
              area_filtered == Filter(area, LAMBDA r : ContainsArable(r.Measure))
              df_norm == MergeOnAreaYear(agri_filtered, area_filtered)
              averaged == {p \in df_norm :
                             ~(agri_filtered.rows[p[1]].Value = 0
                               /\ area_filtered.rows[p[2]].Value = 0)}
              err == IF averaged = {} /\ percentile_raises THEN "IndexError"
                     ELSE IF nutrient = None THEN "AttributeError"
                     ELSE "none"
          IN Finish(err, frames)

\* sections/emissions.py: every frame that may be empty is either guarded
\* (df_ghg, df_nh3, df_pest) or only grouped, compared and plotted
section_emissions ==
  /\ InBody("section_emissions")
  /\ Finish("none", frames)

\* sections/area.py: line 16 writes the Value_norm column into the frame that
\* load_table returned; line 19 then rebinds the name to a filtered copy.
\* ~mask raises TypeError when a Measure is missing.
section_area ==
  /\ InBody("section_area")
  /\ LET area == WithColumn(Frame("area"), "Value_norm", AreaValueNorm)
         written == [frames EXCEPT !["area"] =
                       Some([Get(frames["area"]) EXCEPT !.obj = area])]
         err == IF \E i \in 1..Len(area.rows) : area.rows[i].Measure = NA
                  THEN "TypeError" ELSE "none"
     IN Finish(err, written)

WaterFromYear == 2012

\* str.contains("Cubic metres|Hectares", na=False)
ContainsCubicMetresOrHectares(u) ==
  u \in {"Cubic metres", "Hectares", "Cubic metres per hectare"}

\* sections/water.py: an empty df_water is answered with a warning and a
\* return, before the download button; the rest works on frames derived
\* from a non-empty df_water
section_water ==
  /\ InBody("section_water")
  /\ LET df_water ==
           Filter(Frame("agri"),
                  LAMBDA r : /\ r.Measure \in {"Agriculture freshwater abstraction",
                                               "Total freshwater abstraction",
                                               "Irrigable area", "Irrigation area"}
                             /\ ContainsCubicMetresOrHectares(r.Unit_of_measure)
                             /\ r.Year >= WaterFromYear)
     IN FinishAt("none", frames,
                 IF IsEmpty(df_water) THEN None ELSE download_button(renderer))

EnergyFromYear == 1985

\* sections/energy.py: selected_measure is None when no measure is on offer,
\* and line 33 calls .lower() on it; line 247 reads the first row of the
\* latest-year subset.
section_energy ==
  /\ InBody("section_energy")
  /\ LET energy == Frame("energy")
         energy_filtered == Filter(energy, LAMBDA r : r.Year >= EnergyFromYear)
     IN \E selected_measure \in Selectbox(Unique(energy_filtered, "Measure")) :
          LET energy_subset ==
                Filter(energy_filtered,
                       LAMBDA r : Some(r.Measure) = selected_measure)
              years == {energy_subset.rows[i].Year :
                          i \in 1..Len(energy_subset.rows)}
              latest_data ==
                Filter(energy_subset,
                       LAMBDA r : \A y \in years : r.Year >= y)
              err == IF selected_measure = None THEN "AttributeError"
                     ELSE IF IsEmpty(latest_data) THEN "IndexError"
                     ELSE "none"
          IN Finish(err, frames)

\* sections/advanced_single_country.py: default=[max(years)] raises
\* ValueError when agri has no year
single_country_report ==
  /\ InBody("single_country_report")
  /\ LET agri == Frame("agri")
         years == {agri.rows[i].Year : i \in 1..Len(agri.rows)}
         err == IF years = {} THEN "ValueError" ELSE "none"
     IN Finish(err, frames)

\* st.multiselect(label, options, default): Streamlit raises
\* StreamlitAPIException when a default is not among the options
DefaultsOffered(options, default) == default \subseteq options

\* sections/advanced_compare_countries.py
compare_countries_report ==
  /\ InBody("compare_countries_report")
  /\ LET agri == Frame("agri")
         countries == Unique(agri, "Reference_area")
         years == {agri.rows[i].Year : i \in 1..Len(agri.rows)}
         err == IF ~DefaultsOffered(countries, {"France", "Germany"})
                  THEN "StreamlitAPIException"
                ELSE IF years = {} THEN "ValueError"
                ELSE "none"
     IN Finish(err, frames)

\* water.py (top level): the columns are added to water_filtered and to
\* sg_all, frames derived from the loaded one by boolean indexing
water_py_section_water ==
  /\ InBody("water_py_section_water")
  /\ Finish("none", frames)

\* sections/summary.py
section_summary ==
  /\ InBody("section_summary")
  /\ LET agri == Frame("agri")
         countries == Unique(agri, "Reference_area")
         years == {agri.rows[i].Year : i \in 1..Len(agri.rows)}
         err == IF ~DefaultsOffered(countries, {"France", "Germany", "Mexico"})
                  THEN "StreamlitAPIException"
                ELSE IF years = {} THEN "ValueError"
                ELSE "none"
     IN Finish(err, frames)

(***************************************************************************)
(* upload_data.py, which replaces each relation by the contents of its CSV   *)
(* file, skipping (with a message) every relation whose file cannot be read  *)
(* or whose upload fails.                                                   *)
(***************************************************************************)
\* what the database may hold when the app starts: each relation absent, or
\* uploaded from one of its files
Relation(n) == {None} \cup {Some(CsvFiles(n)[i]) : i \in 1..Len(CsvFiles(n))}

Databases ==
  [agri : Relation("agri"), area : Relation("area"),
   water : Relation("water"), energy : Relation("energy")]

upload_data ==
  /\ uploads < MaxUploads
  /\ uploads' = uploads + 1
  /\ \E after \in Databases :
       /\ \A n \in TableNames : after[n] = db[n] \/ after[n] # None
       /\ db' = after
  /\ UNCHANGED <<cache, pc, section, renderer, pending, frames,
                 lastOp, outcome, returned, prevFail, download, pipe_vars, conc_vars>>

\* the database before the first upload, and after an upload of the files
\* with current observations
Fresh == [n \in TableNames |-> None]

Populated == [n \in TableNames |-> Some(CsvFiles(n)[1])]

\* the app before its first run
AppStart ==
  /\ uploads = 0
  /\ cache = [n \in TableNames |-> None]
  /\ pc = "idle"
  /\ section = NA
  /\ renderer = NA
  /\ pending = << >>
  /\ frames = NoFrames
  /\ lastOp = NoOp
  /\ outcome = "none"
  /\ returned = [n \in TableNames |-> None]
  /\ prevFail = NA
  /\ download = None

\* no session thread is modelled
ConcOff == threads = << >> /\ locks = << >> /\ queries = << >>

PipesOff == fn = "off" /\ arg = None /\ res = None /\ ref = None /\ ConcOff

Init ==
  /\ db \in {Fresh, Populated}
  /\ AppStart
  /\ PipesOff

Next ==
  \/ app
  \/ direct_call
  \/ call_load_table
  \/ section_intro
  \/ section_environment
  \/ section_emissions
  \/ section_area
  \/ section_water
  \/ section_energy
  \/ single_country_report
  \/ compare_countries_report
  \/ water_py_section_water
  \/ section_summary
  \/ upload_data

Spec == Init /\ [][Next]_vars

(***************************************************************************)
(* Properties of the loader and of the script runs (specification Spec).    *)
(***************************************************************************)
\* a step in which load_table was called for the name
Called(n) == lastOp' # lastOp /\ lastOp'.name = n

\* C1: once a name has a cache entry, no later step connects or queries for
\* that name, drops the entry or replaces it, and every later load_table of
\* the name is served from the cache and returns the entry's contents.
C1_CachedNameIsNeverQueriedAgain ==
  [][\A n \in TableNames :
       cache[n] # None =>
         /\ cache'[n] = cache[n]
         /\ Called(n) => /\ lastOp'.op = "hit"
                         /\ lastOp'.err = "none"
                         /\ frames'[n] # None
                         /\ Get(frames'[n]).ret = Get(cache[n])]_vars

\* a load was served from the cache although the database now holds other
\* contents for the name
C1_Witness ==
  /\ lastOp.op = "hit"
  /\ db[lastOp.name] # cache[lastOp.name]

\* C2 (as claimed): no renderer writes to an object that load_table returned:
\* every frame a run was given still has the contents it was returned with.
C2_ReturnedFramesAreNeverWritten ==
  \A n \in TableNames :
    frames[n] # None => Get(frames[n]).obj = Get(frames[n]).ret

\* C3: two load_table calls of one name return the same contents: every
\* frame returned for a name equals the frame returned for it first.
C3_LoadIsIdempotent ==
  \A n \in TableNames :
    frames[n] # None => Some(Get(frames[n]).ret) = returned[n]

\* section_area runs on a second load of "area", after the relation was
\* replaced in the database
C3_Witness ==
  /\ renderer = "section_area"
  /\ pc = "idle"
  /\ outcome = "ok"
  /\ lastOp.name = "area"
  /\ lastOp.op = "hit"
  /\ db["area"] # cache["area"]
  /\ "Value_norm" \in Get(frames["area"]).obj.columns

\* C7 (as claimed): a renderer whose filters leave no row still renders to
\* its end: a run of the environment, emissions or energy section that was
\* given all its frames ends without an exception.
C7_EmptySelectionsRender ==
  (/\ pc = "idle"
   /\ renderer \in {"section_environment", "section_emissions", "section_energy"}
   /\ lastOp.err = "none")
    => outcome = "ok"

\* C11: a load_table call that is not served from the cache goes to the
\* server exactly once; when it fails, its exception is the outcome of the
\* script run, which ends there: no frame is added, the renderer's body does
\* not run and no download button is reached.
C11_NoRetryAndFailureAborts ==
  /\ [][(lastOp' # lastOp /\ lastOp'.op \notin {"hit", "none"}) =>
          /\ lastOp'.attempts = 1
          /\ lastOp'.err # "none" =>
               /\ outcome' = lastOp'.err
               /\ pc' = "idle"
               /\ frames' = frames]_vars
  /\ [](lastOp.err # "none" =>
          /\ pc = "idle"
          /\ outcome = lastOp.err
          /\ download = None
          /\ frames[lastOp.name] = None
          /\ \A n \in TableNames :
               frames[n] # None => Get(frames[n]).obj = Get(frames[n]).ret)

\* section_intro got agri and area, and its third load, of water, failed
C11_Witness ==
  /\ renderer = "section_intro"
  /\ lastOp.name = "water"
  /\ lastOp.err = "OperationalError"
  /\ lastOp.attempts = 1
  /\ frames["agri"] # None
  /\ frames["area"] # None
  /\ frames["energy"] = None
  /\ outcome = "OperationalError"

\* the error kinds of the specification, as the exceptions SQLAlchemy raises
SpecError(err) ==
  CASE err = "ProgrammingError" -> "NotFoundError"
    [] err = "OperationalError" -> "ConnectivityError"
    [] OTHER -> "none"

\* C12: a load_table call that goes to the server fails with the
\* connectivity error when the server is unreachable, with the not-found
\* error when the server is reachable and has no relation of the name, and
\* succeeds otherwise; a failed call returns no frame.
C12_NotFoundAndConnectivityErrors ==
  [][\A n \in TableNames :
       (Called(n) /\ lastOp'.op # "hit") =>
         /\ lastOp'.server = "down" =>
              SpecError(lastOp'.err) = "ConnectivityError"
         /\ (lastOp'.server = "up" /\ db[n] = None) =>
              SpecError(lastOp'.err) = "NotFoundError"
         /\ (lastOp'.server = "up" /\ db[n] # None) => lastOp'.err = "none"
         /\ lastOp'.err # "none" =>
              /\ frames'[n] = None
              /\ returned' = returned]_vars

\* a load of a relation the reachable server does not have, after a load
\* that succeeded
C12_Witness ==
  /\ lastOp.err = "ProgrammingError"
  /\ lastOp.server = "up"
  /\ db[lastOp.name] = None
  /\ frames[lastOp.name] = None
  /\ \E n \in TableNames : frames[n] # None

\* C13: every load_table call, made or still to be made, names one of agri,
\* area, water, energy, whatever section and mode were selected.
C13_TableNamesAreEnumerated ==
  LET names == {"agri", "area", "water", "energy"}
  IN /\ \A i \in 1..Len(pending) : pending[i] \in names
     /\ lastOp.op # "none" => lastOp.name \in names
     /\ DOMAIN cache = names

\* the single-country report made its four loads
C13_Witness ==
  /\ renderer = "single_country_report"
  /\ pc = "body"
  /\ \A n \in TableNames : frames[n] # None
  /\ lastOp.name = "water"

\* C16 (as claimed): a render of a sidebar section that completes has
\* reached a download button.
C16_EveryReportOffersADownload ==
  (pc = "idle" /\ section # NA /\ outcome = "ok") => download # None

\* the renderers the specification's seven sections stand for
ExpectedRenderers(label) ==
  CASE label = "1. Introduction" -> {"section_intro"}
    [] label = "2. Environmental Impact" -> {"section_environment"}
    [] label = "3. Emissions & Chemicals" -> {"section_emissions"}
    [] label = "4. Land Use" -> {"section_area"}
    [] label = "5. Water Use" -> {"section_water"}
    [] label = "6. Energy Use" -> {"section_energy"}
    [] label = "7. Advanced Analysis" ->
         {"single_country_report", "compare_countries_report"}
    [] OTHER -> {}

\* C17: the sidebar has seven distinct labels; a run of the app enters the
\* one renderer that belongs to the selected label (for Advanced Analysis one
\* of its two reports), and keeps to it until the run ends.
C17_OneRendererPerSelection ==
  /\ [](/\ Len(Sections) = 7
        /\ \A i, j \in 1..Len(Sections) : Sections[i] = Sections[j] => i = j
        /\ section # NA =>
             /\ section \in Range(Sections)
             /\ renderer \in ExpectedRenderers(section))
  /\ [][pc # "idle" => (renderer' = renderer /\ section' = section)]_vars

\* a run with Advanced Analysis selected rendered the comparison report
C17_Witness ==
  /\ section = "7. Advanced Analysis"
  /\ renderer = "compare_countries_report"
  /\ pc = "idle"
  /\ outcome = "ok"

\* C10: a load_table call that fails creates no cache entry for its name,
\* leaves every cache entry as it was and ends the script run; after it the
\* failed name is still without entry and the next interaction can start.
C10_FailedLoadIsLocal ==
  /\ [][(lastOp' # lastOp /\ lastOp'.err # "none") =>
          /\ cache' = cache
          /\ pc' = "idle"
          /\ pending' = << >>]_vars
  /\ [](lastOp.err # "none" =>
          /\ cache[lastOp.name] = None
          /\ pc = "idle"
          /\ ENABLED app)

\* the interaction right after a failed load of a name loaded that name and
\* rendered to the end
C10_Witness ==
  /\ prevFail # NA
  /\ pc = "idle"
  /\ outcome = "ok"
  /\ frames[prevFail] # None
  /\ cache[prevFail] # None

(***************************************************************************)
(* The unit normalizer taken alone (specification SpecNorm): a frame of      *)
(* Value and Unit_multiplier, and the three places that add the normalised   *)
(* column to it.                                                            *)
(***************************************************************************)
\* rows per frame
MaxNormRows == 2

NormValues == {-2, 0, 5}

NormLabels == {"Millions", "Thousands", "Units", "Billions", "Hundreds", NA}

\* 32-bit products: a value in Billions is kept below 3 in magnitude
NormRows ==
  {r \in [Value : NormValues, Unit_multiplier : NormLabels] :
     r.Unit_multiplier = "Billions" => (r.Value <= 2 /\ r.Value >= -2)}

RECURSIVE SeqsUpTo(_, _)
SeqsUpTo(S, n) ==
  IF n = 0 THEN {<< >>}
  ELSE LET shorter == SeqsUpTo(S, n - 1)
       IN shorter \cup {Append(s, x) : s \in {t \in shorter : Len(t) = n - 1},
                                       x \in S}

NormFrames ==
  {[columns |-> {"Value", "Unit_multiplier"}, rows |-> rs] :
     rs \in SeqsUpTo(NormRows, MaxNormRows)}

AppOff ==
  /\ db = Fresh
  /\ AppStart
  /\ ConcOff

InitNorm ==
  /\ AppOff
  /\ fn = "input"
  /\ arg \in NormFrames
  /\ res = None
  /\ ref = None

Normalize(place, col, F(_)) ==
  /\ fn = "input"
  /\ fn' = place
  /\ res' = Some([col |-> col, df |-> WithColumn(arg, col, F)])
  /\ UNCHANGED <<arg, ref, app_vars, conc_vars>>

\* sections/area.py line 16
area_Value_norm == Normalize("area.Value_norm", "Value_norm", AreaValueNorm)

\* water.py lines 46-49
water_Value_normalized ==
  Normalize("water.Value_normalized", "Value_normalized", WaterValueNormalized)

\* water.py line 156
water_sg_Value_norm == Normalize("water.sg.Value_norm", "Value_norm", SgValueNorm)

NextNorm ==
  \/ area_Value_norm
  \/ water_Value_normalized
  \/ water_sg_Value_norm

SpecNorm == InitNorm /\ [][NextNorm]_vars

\* the factor the specification gives for each of the four labels
KnownFactor(label) ==
  CASE label = "Units" -> 1
    [] label = "Thousands" -> 10^3
    [] label = "Millions" -> 10^6
    [] label = "Billions" -> 10^9

KnownLabels == {"Units", "Thousands", "Millions", "Billions"}

\* the normalised value a place gave to row i of its input
Normalised(i) == Get(res).df.rows[i][Get(res).col]

\* C4: at each of the three places, a row whose label is one of Units,
\* Thousands, Millions, Billions gets the value times 1, 10^3, 10^6, 10^9,
\* and the Value and the label themselves stay as they were.
C4_KnownLabelScalesByItsFactor ==
  res # None =>
    /\ Len(Get(res).df.rows) = Len(arg.rows)
    /\ \A i \in 1..Len(arg.rows) :
         arg.rows[i].Unit_multiplier \in KnownLabels =>
           /\ Normalised(i) =
                arg.rows[i].Value * KnownFactor(arg.rows[i].Unit_multiplier)
           /\ Get(res).df.rows[i].Value = arg.rows[i].Value
           /\ Get(res).df.rows[i].Unit_multiplier = arg.rows[i].Unit_multiplier

\* the land-use place normalised a frame holding -2 Billions and 5 Thousands
C4_Witness ==
  /\ fn = "area.Value_norm"
  /\ arg.rows = << [Value |-> -2, Unit_multiplier |-> "Billions"],
                   [Value |-> 5, Unit_multiplier |-> "Thousands"] >>
  /\ Normalised(1) = -2000000000
  /\ Normalised(2) = 5000

\* C5: at each of the three places, a row whose label is missing or is not
\* one of the four gets its value unchanged (factor 1): it is neither dropped
\* nor zeroed, and no place raises on it.
C5_UnknownLabelKeepsTheValue ==
  res # None =>
    /\ Len(Get(res).df.rows) = Len(arg.rows)
    /\ \A i \in 1..Len(arg.rows) :
         arg.rows[i].Unit_multiplier \notin KnownLabels =>
           Normalised(i) = arg.rows[i].Value

\* the land-use place normalised a frame with a missing label and a label
\* outside the map, both on a non-zero value
C5_Witness ==
  /\ fn = "area.Value_norm"
  /\ arg.rows = << [Value |-> 5, Unit_multiplier |-> NA],
                   [Value |-> -2, Unit_multiplier |-> "Hundreds"] >>
  /\ Normalised(1) = 5
  /\ Normalised(2) = -2

\* A missing Value (NULL in the database, NaN in the frame), as a number that
\* no observation of the model's frames has.
NaN == -999

(***************************************************************************)
(* Sorting.  DataFrame.sort_values and Series.sort_values sort with          *)
(* kind="quicksort" unless told otherwise, which pandas documents as not     *)
(* stable: rows with equal keys come out in an order that depends on the     *)
(* numpy build and on the length of the input.  A sort on several columns    *)
(* goes through a lexicographic sort, which is stable, as are nlargest and    *)
(* nsmallest with keep="first".  A sort is therefore the set of the          *)
(* orderings it may produce, each a permutation of the row positions.        *)
(***************************************************************************)
ArgSorts(rows, Less(_, _), stable) ==
  IF Len(rows) = 0 THEN {<< >>}
  ELSE {p \in Permutations(1..Len(rows)) :
          \A i, j \in 1..Len(rows) :
            i < j => /\ ~Less(rows[p[j]], rows[p[i]])
                     /\ (stable /\ ~Less(rows[p[i]], rows[p[j]])) => p[i] < p[j]}

Take(rows, p) == [i \in 1..Len(rows) |-> rows[p[i]]]

\* DataFrame.head(n)
FirstRows(rows, n) == SubSeq(rows, 1, IF Len(rows) < n THEN Len(rows) ELSE n)

\* A stable sort on Value, largest first, built row by row: a row goes after
\* the rows that are not smaller.  A missing Value sorts last.
RECURSIVE StableDescending(_)
StableDescending(rows) ==
  IF rows = << >> THEN << >>
  ELSE LET sorted == StableDescending(SubSeq(rows, 1, Len(rows) - 1))
           r == rows[Len(rows)]
           k == Cardinality({i \in 1..Len(sorted) : sorted[i].Value >= r.Value})
       IN SubSeq(sorted, 1, k) \o << r >> \o SubSeq(sorted, k + 1, Len(sorted))

\* the orderings of a sorted sequence that differ in the order of equal keys
RECURSIVE TieOrders(_)
TieOrders(sorted) ==
  IF sorted = << >> THEN {<< >>}
  ELSE UNION { { << sorted[i] >> \o rest :
                   rest \in TieOrders(SubSeq(sorted, 1, i - 1)
                                       \o SubSeq(sorted, i + 1, Len(sorted))) } :
               i \in {j \in 1..Len(sorted) : sorted[j].Value = sorted[1].Value} }

\* sort_values("Value", ascending=False), and the same on a Series: not
\* stable, missing values last
sort_values_descending(rows) == TieOrders(StableDescending(rows))

\* Series.dropna() on the Value
DropNullValues(rows) == SelectSeq(rows, LAMBDA r : r.Value # NaN)

\* a slip: the n smallest taken for the n largest
nlargest_taking_the_tail(rows, n) ==
  LET sorted == StableDescending(DropNullValues(rows))
  IN {SubSeq(sorted, IF Len(sorted) < n THEN 1 ELSE Len(sorted) - n + 1,
             Len(sorted))}

\* nlargest(n, "Value"), and the same on a Series: keep="first", and rows
\* with a missing Value are left out
nlargest(rows, n) == {FirstRows(StableDescending(DropNullValues(rows)), n)}

(***************************************************************************)
(* The top-k tables taken alone (specification SpecTopK): a frame with one   *)
(* row per country, in the order the grouping (or the table) gives, and the  *)
(* places that cut a ranking out of it.                                     *)
(***************************************************************************)
\* rows per frame
MaxTopRows == 3

TopValues == {1, 2, 3}

TopAreas == <<"Austria", "Belgium", "Chile", "Denmark", "Estonia">>

TopFrames ==
  UNION {{[i \in 1..n |-> [Reference_area |-> TopAreas[i], Value |-> vs[i]]] :
            vs \in [1..n -> TopValues]} :
         n \in {m \in 0..MaxTopRows : m <= Len(TopAreas)}}

InitTopK ==
  /\ AppOff
  /\ fn = "input"
  /\ arg \in TopFrames
  /\ res = None
  /\ ref = None

Rank(place, outcomes) ==
  /\ fn = "input"
  /\ fn' = place
  /\ \E rows \in outcomes : res' = Some(rows)
  /\ UNCHANGED <<arg, ref, app_vars, conc_vars>>

\* sections/energy.py line 55
energy_df_top == Rank("energy.df_top", nlargest(arg, 15))

\* sections/environment.py line 65
environment_df_top == Rank("environment.df_top", nlargest(arg, 10))

\* sections/emissions.py line 74
emissions_df_bar ==
  Rank("emissions.df_bar",
       {FirstRows(sorted, 15) : sorted \in sort_values_descending(arg)})

\* water.py lines 112-119
water_top20_tree ==
  Rank("water.top20_tree",
       {FirstRows(sorted, 20) :
          sorted \in sort_values_descending(
                       [i \in 1..Len(arg) |->
                          [arg[i] EXCEPT !.Value = IF @ = NaN THEN 0 ELSE @]])})

NextTopK ==
  \/ energy_df_top
  \/ environment_df_top
  \/ emissions_df_bar
  \/ water_top20_tree

SpecTopK == InitTopK /\ [][NextTopK]_vars

\* the position a country has in the frame that was ranked
PositionOf(area) == CHOOSE i \in 1..Len(arg) : arg[i].Reference_area = area

\* C8 (as claimed): in every ranking, nlargest or sort-then-head, rows of
\* equal value stand in the order they had in the frame that was ranked.
C8_TiesKeepTheirOrder ==
  res # None =>
    \A i, j \in 1..Len(Get(res)) :
      (i < j /\ Get(res)[i].Value = Get(res)[j].Value) =>
        PositionOf(Get(res)[i].Reference_area)
          < PositionOf(Get(res)[j].Reference_area)

(***************************************************************************)
(* Aggregates and grouping.  A mean is kept as the pair of the sum and the   *)
(* number of values it is taken over; over no value (n = 0) it is NaN.       *)
(***************************************************************************)
\* Series.sum(): skipna=True, and 0 over no value
RECURSIVE Sum(_)
Sum(values) ==
  IF values = << >> THEN 0
  ELSE (IF Head(values) = NaN THEN 0 ELSE Head(values)) + Sum(Tail(values))

\* a mean that counts the missing values as observations of 0
Mean_over_all_rows(values) == [sum |-> Sum(values), n |-> Len(values)]

\* Series.mean(): skipna=True, and NaN over no value
Mean(values) ==
  [sum |-> Sum(values),
   n |-> Cardinality({i \in 1..Len(values) : values[i] # NaN})]

\* df[mask]["Value"]
ValuesWhere(df, P(_)) ==
  LET kept == SelectSeq(df.rows, P)
  IN [i \in 1..Len(kept) |-> kept[i].Value]

\* the order of sorted() and of group keys on the country names of the model
Alphabetical == <<"France", "Germany", "Mexico">>

NameRank(c) == CHOOSE i \in 1..Len(Alphabetical) : Alphabetical[i] = c

\* Series.dropna().unique(): the values in the order of their first row
RECURSIVE UniqueInOrder(_)
UniqueInOrder(values) ==
  IF values = << >> THEN << >>
  ELSE LET front == UniqueInOrder(SubSeq(values, 1, Len(values) - 1))
           last == values[Len(values)]
       IN IF last = NA \/ last \in Range(front) THEN front
          ELSE Append(front, last)

\* groupby(["Year", "Reference area"])["Value"].agg().reset_index(): one row
\* per key that occurs, keys ascending
GroupByYearArea(df, Agg(_)) ==
  LET keys == {<<df.rows[i].Year, df.rows[i].Reference_area>> :
                 i \in 1..Len(df.rows)}
      KeyLess(a, b) ==
        a[1] < b[1] \/ (a[1] = b[1] /\ NameRank(a[2]) < NameRank(b[2]))
      ordered ==
        CHOOSE s \in [1..Cardinality(keys) -> keys] :
          \A i, j \in 1..Cardinality(keys) : i < j => KeyLess(s[i], s[j])
  IN [k \in 1..Cardinality(keys) |->
        [Year |-> ordered[k][1], Reference_area |-> ordered[k][2],
         Value |-> Agg(ValuesWhere(df, LAMBDA r :
                         r.Year = ordered[k][1]
                         /\ r.Reference_area = ordered[k][2]))]]

(***************************************************************************)
(* The KPI tables of sections/advanced_compare_countries.py and              *)
(* sections/summary.py, from the filters on.                                 *)
(***************************************************************************)
\* a slip: sorting the KPI rows on the year alone
sort_values_Year(rows) ==
  {Take(rows, p) : p \in ArgSorts(rows, LAMBDA a, b : a.Year < b.Year, FALSE)}

\* sort_values(by=["Year", "Country"])
sort_values_Year_Country(rows) ==
  {Take(rows, p) :
     p \in ArgSorts(rows,
                    LAMBDA a, b :
                      a.Year < b.Year
                      \/ (a.Year = b.Year
                          /\ NameRank(a.Country) < NameRank(b.Country)),
                    TRUE)}

\* df[df["Reference area"].isin(selected_countries)
\*    & df["Year"].isin(selected_years)]
FilterSelection(df, selected_countries, selected_years) ==
  Filter(df, LAMBDA r : /\ r.Reference_area \in Range(selected_countries)
                        /\ r.Year \in Range(selected_years))

\* the dict appended for one country and year
KpiRow(country, year, agri_filtered, energy_filtered) ==
  LET agri_c == Filter(agri_filtered, LAMBDA r : r.Reference_area = country
                                                 /\ r.Year = year)
      energy_c == Filter(energy_filtered, LAMBDA r : r.Reference_area = country
                                                     /\ r.Year = year)
  IN [Country |-> country,
      Year |-> year,
      Nitrogen_Surplus |->
        Mean(ValuesWhere(agri_c, LAMBDA r : r.Nutrients = "Nitrogen")),
      Phosphorus_Surplus |->
        Mean(ValuesWhere(agri_c, LAMBDA r : r.Nutrients = "Phosphorus")),
      GHG_Emissions |->
        Sum(ValuesWhere(agri_c, LAMBDA r :
              r.Measure = "Total greenhouse gas emissions")),
      Energy_Use |->
        Sum(ValuesWhere(energy_c, LAMBDA r :
              r.Measure = "Direct on-farm energy consumption")),
      Water_Use |->
        Sum(ValuesWhere(agri_c, LAMBDA r :
              r.Measure = "Agriculture freshwater abstraction")),
      Arable_Land |->
        Sum(ValuesWhere(agri_c, LAMBDA r : r.Measure = "Arable land"))]

\* the two nested loops: countries outside, years inside
kpi_data(selected_countries, selected_years, agri_filtered, energy_filtered) ==
  [k \in 1..(Len(selected_countries) * Len(selected_years)) |->
     KpiRow(selected_countries[((k - 1) \div Len(selected_years)) + 1],
            selected_years[((k - 1) % Len(selected_years)) + 1],
            agri_filtered, energy_filtered)]

metric_map ==
  [trend_type \in {"Nitrogen Surplus", "Phosphorus Surplus", "GHG Emissions",
                   "Energy Use", "Water Use", "Arable Land"} |->
     CASE trend_type = "Nitrogen Surplus" -> <<"Nutrients", "Nitrogen">>
       [] trend_type = "Phosphorus Surplus" -> <<"Nutrients", "Phosphorus">>
       [] trend_type = "GHG Emissions" ->
            <<"Measure", "Total greenhouse gas emissions">>
       [] trend_type = "Energy Use" ->
            <<"Measure", "Direct on-farm energy consumption">>
       [] trend_type = "Water Use" ->
            <<"Measure", "Agriculture freshwater abstraction">>
       [] trend_type = "Arable Land" -> <<"Measure", "Arable land">>]

\* a slip: the first unit taken without looking at the length
unit_label_unguarded(unit) == IF Len(unit) > 0 THEN Some(unit[1]) ELSE None

\* unit[0] if len(unit) > 0 else "units"; None stands for an IndexError
unit_label(unit) == IF Len(unit) > 0 THEN Some(unit[1]) ELSE Some("units")

\* lines 94-111 of advanced_compare_countries.py
Trend(trend_type, agri_filtered, energy_filtered) ==
  LET source_col == metric_map[trend_type][1]
      value_filter == metric_map[trend_type][2]
      from_agri == source_col = "Nutrients"
                   \/ trend_type \in {"Water Use", "Arable Land"}
      source == IF from_agri THEN agri_filtered ELSE energy_filtered
      df_trend == Filter(source, LAMBDA r : r[source_col] = value_filter)
      df_plot == IF source_col = "Nutrients"
                   THEN GroupByYearArea(df_trend, Mean)
                   ELSE GroupByYearArea(df_trend, Sum)
      unit == UniqueInOrder([i \in 1..Len(df_trend.rows) |->
                               df_trend.rows[i].Unit_of_measure])
      label == unit_label(unit)
  IN [df_trend |-> df_trend, df_plot |-> df_plot,
      unit_label |-> IF label = None THEN NA ELSE Get(label),
      err |-> IF label = None THEN "IndexError" ELSE "none"]

(***************************************************************************)
(* The two KPI reports taken alone (specification SpecKpi): an agri and an   *)
(* energy frame, and runs of the two pipelines with widget values chosen     *)
(* among what the widgets offer.                                            *)
(***************************************************************************)
\* agri rows beyond the first ones
MaxKpiRows == 1

\* every default of the two country widgets has a row, as the widgets demand
KpiFirstRows ==
  << Row("France", 2015, "Nutrient balance", 4, "Units",
         "Kilograms per hectare", "Nitrogen"),
     Row("Germany", 2015, "Arable land", 3, "Thousands", "Hectares", NA),
     Row("Mexico", 2014, "Nutrient balance", 6, "Units",
         "Kilograms per hectare", "Nitrogen"),
     \* observations without a Value
     Row("France", 2015, "Nutrient balance", NaN, "Units",
         "Kilograms per hectare", "Nitrogen"),
     Row("Germany", 2015, "Arable land", NaN, "Thousands", "Hectares", NA),
     Row("Mexico", 2014, "Nutrient balance", NaN, "Units",
         "Kilograms per hectare", "Phosphorus") >>

KpiMoreRows ==
  { Row("France", 2015, "Nutrient balance", 8, "Units",
        "Kilograms per hectare", "Nitrogen"),
    Row("Germany", 2014, "Nutrient balance", 2, "Units", NA, "Nitrogen"),
    Row("Germany", 2015, "Total greenhouse gas emissions", 7, "Thousands",
        "Tonnes", NA),
    Row("France", 2014, "Arable land", 5, "Thousands", "Hectares", NA) }

KpiAgriFrames ==
  {Table(KpiFirstRows \o more) : more \in SeqsUpTo(KpiMoreRows, MaxKpiRows)}

KpiEnergyFrames ==
  { Table(<< >>),
    Table(<< Row("France", 2015, "Direct on-farm energy consumption", 9,
                 "Thousands", "Tonnes of oil equivalent", NA),
             Row("France", 2015, "Direct on-farm energy consumption", NaN,
                 "Thousands", "Tonnes of oil equivalent", NA) >>) }

\* what the user may have picked, in the order of picking
KpiCountrySelections == { << >>, <<"Mexico">>, <<"Germany", "France">> }

KpiYearSelections == { <<2015>>, <<2015, 2014>> }

KpiTrendTypes == {"Nitrogen Surplus", "Arable Land", "Energy Use"}

InitKpi ==
  /\ AppOff
  /\ fn = "input"
  /\ arg \in [agri : KpiAgriFrames, energy : KpiEnergyFrames]
  /\ res = None
  /\ ref = None

\* the end of a run of a pipeline: ref keeps the first run, and whether a
\* later run had its function and widget values
Ran(f, params, out) ==
  /\ fn' = f
  /\ res' = Some([fn |-> f, params |-> params, out |-> out])
  /\ ref' = IF ref = None
              THEN Some([fn |-> f, params |-> params, out |-> out,
                         repeated |-> FALSE])
            ELSE IF Get(ref).fn = f /\ Get(ref).params = params
              THEN Some([Get(ref) EXCEPT !.repeated = TRUE])
            ELSE ref
  /\ UNCHANGED <<arg, app_vars, conc_vars>>

\* the multiselect offers the countries and years of agri
Offered(selected_countries, selected_years) ==
  /\ Range(selected_countries) \subseteq Unique(arg.agri, "Reference_area")
  /\ Range(selected_years) \subseteq
       {arg.agri.rows[i].Year : i \in 1..Len(arg.agri.rows)}

\* a slip: the guard of line 22 looking at the countries alone
empty_selection_of_countries(selected_countries, selected_years) ==
  selected_countries = << >>

\* `if not selected_countries or not selected_years` (line 22; summary.py
\* line 20)
empty_selection(selected_countries, selected_years) ==
  selected_countries = << >> \/ selected_years = << >>

\* sections/advanced_compare_countries.py lines 22-119 for one choice of the
\* widgets
compare_countries_run(selected_countries, selected_years, trend_type) ==
  /\ Offered(selected_countries, selected_years)
  /\ LET params == [selected_countries |-> selected_countries,
                    selected_years |-> selected_years,
                    trend_type |-> trend_type]
         agri_filtered ==
           FilterSelection(arg.agri, selected_countries, selected_years)
         energy_filtered ==
           FilterSelection(arg.energy, selected_countries, selected_years)
         trend == Trend(trend_type, agri_filtered, energy_filtered)
     IN IF empty_selection(selected_countries, selected_years)
          THEN Ran("compare_countries", params, [warning |-> TRUE])
          ELSE \E df_kpi \in
                    sort_values_Year_Country(
                      kpi_data(selected_countries, selected_years,
                               agri_filtered, energy_filtered)) :
                 Ran("compare_countries", params,
                     [warning |-> FALSE,
                      agri_filtered |-> agri_filtered,
                      energy_filtered |-> energy_filtered,
                      df_kpi |-> df_kpi,
                      download |-> df_kpi,
                      df_trend |-> trend.df_trend,
                      df_plot |-> trend.df_plot,
                      unit_label |-> trend.unit_label,
                      err |-> trend.err])

compare_countries_pipeline ==
  \E selected_countries \in KpiCountrySelections,
     selected_years \in KpiYearSelections,
     trend_type \in KpiTrendTypes :
    compare_countries_run(selected_countries, selected_years, trend_type)

\* sections/summary.py lines 20-68 for one choice of the widgets
summary_run(selected_countries, selected_years) ==
  /\ Offered(selected_countries, selected_years)
  /\ LET params == [selected_countries |-> selected_countries,
                    selected_years |-> selected_years]
         agri_filtered ==
           FilterSelection(arg.agri, selected_countries, selected_years)
         energy_filtered ==
           FilterSelection(arg.energy, selected_countries, selected_years)
     IN IF empty_selection(selected_countries, selected_years)
          THEN Ran("summary", params, [warning |-> TRUE])
          ELSE \E df_summary \in
                    sort_values_Year_Country(
                      kpi_data(selected_countries, selected_years,
                               agri_filtered, energy_filtered)) :
                 Ran("summary", params,
                     [warning |-> FALSE,
                      agri_filtered |-> agri_filtered,
                      energy_filtered |-> energy_filtered,
                      df_summary |-> df_summary,
                      download |-> df_summary,
                      err |-> "none"])

summary_pipeline ==
  \E selected_countries \in KpiCountrySelections,
     selected_years \in KpiYearSelections :
    summary_run(selected_countries, selected_years)

NextKpi ==
  \/ compare_countries_pipeline
  \/ summary_pipeline

SpecKpi == InitKpi /\ [][NextKpi]_vars

\* some row of the frame is of a selected country and a selected year
SomeRowSelected(df, params) ==
  \E i \in 1..Len(df.rows) :
    /\ \E c \in 1..Len(params.selected_countries) :
         df.rows[i].Reference_area = params.selected_countries[c]
    /\ \E y \in 1..Len(params.selected_years) :
         df.rows[i].Year = params.selected_years[y]

EmptyLike(df) == [columns |-> df.columns, rows |-> << >>]

\* C6: a filter that no row satisfies gives the empty table with the columns
\* of its input, and the run does not raise: in both reports the country and
\* year filter of agri and of energy, and in the comparison the trend filter,
\* whose empty result gives an empty plot table and the unit "units".
C6_NoMatchGivesEmptyTable ==
  (res # None /\ ~Get(res).out.warning) =>
    LET out == Get(res).out
        params == Get(res).params
    IN /\ out.err = "none"
       /\ ~SomeRowSelected(arg.agri, params) =>
            out.agri_filtered = EmptyLike(arg.agri)
       /\ ~SomeRowSelected(arg.energy, params) =>
            out.energy_filtered = EmptyLike(arg.energy)
       /\ Get(res).fn = "compare_countries" =>
            /\ out.df_trend.columns = BaseColumns
            /\ (\A i \in 1..Len(out.agri_filtered.rows) :
                  out.agri_filtered.rows[i].Nutrients # "Nitrogen")
                 => (params.trend_type = "Nitrogen Surplus"
                       => out.df_trend.rows = << >>)
            /\ out.df_trend.rows = << >> =>
                 /\ out.df_plot = << >>
                 /\ out.unit_label = "units"

\* a comparison of Mexico in 2015, of which agri and energy have no row
C6_Witness ==
  /\ fn = "compare_countries"
  /\ Get(res).params.selected_countries = <<"Mexico">>
  /\ Get(res).params.selected_years = <<2015>>
  /\ Get(res).out.agri_filtered.rows = << >>
  /\ Get(res).out.energy_filtered.rows = << >>
  /\ Len(Get(res).out.df_kpi) = 1
  /\ Get(res).out.df_plot = << >>
  /\ Get(res).out.err = "none"

NonNullMatches(df, country, year, col, value) ==
  {i \in 1..Len(df.rows) :
     /\ df.rows[i].Reference_area = country
     /\ df.rows[i].Year = year
     /\ df.rows[i][col] = value
     /\ df.rows[i].Value # NaN}

RECURSIVE Total(_, _)
Total(df, rows) ==
  IF rows = {} THEN 0
  ELSE LET i == CHOOSE k \in rows : TRUE
       IN df.rows[i].Value + Total(df, rows \ {i})

\* an indicator that is a sum: the total of the matching non-null Values,
\* which is 0 when there is none
IsSumOf(indicator, df, country, year, col, value) ==
  LET rows == NonNullMatches(df, country, year, col, value)
  IN /\ indicator = Total(df, rows)
     /\ rows = {} => indicator = 0

\* an indicator that is a mean: the total of the matching non-null Values
\* over their number, which is null (n = 0) when there is none
IsMeanOf(indicator, df, country, year, col, value) ==
  LET rows == NonNullMatches(df, country, year, col, value)
  IN /\ indicator.sum = Total(df, rows)
     /\ indicator.n = Cardinality(rows)
     /\ rows = {} => indicator.n = 0

\* the KPI table of the last run
KpiTable ==
  IF Get(res).fn = "compare_countries" THEN Get(res).out.df_kpi
  ELSE Get(res).out.df_summary

\* C20: in the KPI table of both reports, for every country and year, GHG
\* Emissions, Energy Use, Water Use and Arable Land are the sums of the
\* matching non-null Values (0 when none matches), and Nitrogen and
\* Phosphorus Surplus are the means of the matching non-null Values (null,
\* not 0, when none matches).
C20_AggregatesSkipNullValues ==
  (res # None /\ ~Get(res).out.warning) =>
    \A k \in 1..Len(KpiTable) :
      LET row == KpiTable[k]
          c == row.Country
          y == row.Year
      IN /\ IsSumOf(row.GHG_Emissions, arg.agri, c, y, "Measure",
                    "Total greenhouse gas emissions")
         /\ IsSumOf(row.Energy_Use, arg.energy, c, y, "Measure",
                    "Direct on-farm energy consumption")
         /\ IsSumOf(row.Water_Use, arg.agri, c, y, "Measure",
                    "Agriculture freshwater abstraction")
         /\ IsSumOf(row.Arable_Land, arg.agri, c, y, "Measure", "Arable land")
         /\ IsMeanOf(row.Nitrogen_Surplus, arg.agri, c, y, "Nutrients", "Nitrogen")
         /\ IsMeanOf(row.Phosphorus_Surplus, arg.agri, c, y, "Nutrients",
                     "Phosphorus")

\* the summary of Germany and France over 2015 and 2014: France 2015 has a
\* Nitrogen value of 4 and a missing one (mean 4 over one value) and an
\* energy value of 9 and a missing one, Germany 2015 an arable land value of
\* 3 and a missing one, and France 2014 no row (sums 0, means null)
C20_Witness ==
  /\ res # None
  /\ Get(res).fn = "summary"
  /\ Get(res).params.selected_countries = <<"Germany", "France">>
  /\ Get(res).params.selected_years = <<2015, 2014>>
  /\ Len(arg.agri.rows) = 6
  /\ Len(arg.energy.rows) = 2
  /\ \E k \in 1..4 :
       /\ KpiTable[k].Country = "France" /\ KpiTable[k].Year = 2015
       /\ KpiTable[k].Nitrogen_Surplus = [sum |-> 4, n |-> 1]
       /\ KpiTable[k].Energy_Use = 9
       /\ KpiTable[k].Phosphorus_Surplus.n = 0
  /\ \E k \in 1..4 :
       /\ KpiTable[k].Country = "Germany" /\ KpiTable[k].Year = 2015
       /\ KpiTable[k].Arable_Land = 3
  /\ \E k \in 1..4 :
       /\ KpiTable[k].Country = "France" /\ KpiTable[k].Year = 2014
       /\ KpiTable[k].Arable_Land = 0
       /\ KpiTable[k].Nitrogen_Surplus.n = 0

\* ---------------------------------------------------------------------------
\* CSV export: the download buttons of the sections.  A table is a header and
\* rows of cells; a cell is an integer, a text or a missing value.  A CSV is
\* kept as its header line and its data lines, each split into fields.
\* ---------------------------------------------------------------------------

MaxCsvRows == 2

NullCell == [kind |-> "null", n |-> 0, s |-> ""]
IntCell(n) == [kind |-> "int", n |-> n, s |-> ""]
StrCell(s) == [kind |-> "str", n |-> 0, s |-> s]

\* The numbers a field can spell: the values of the files below, their sums
\* and their products with the multipliers of the files below.
CsvNumbers == (0 .. 12 * (MaxCsvRows + 1)) \cup { 1000 * v : v \in 0 .. 12 }

\* pandas.read_csv, default na_values (those a cleaned file can hold)
na_values == {"", "NA", "N/A", "NaN", "nan", "null", "None", "NULL", "n/a", "#N/A"}

LooksNumeric(field) == \E v \in CsvNumbers : ToString(v) = field

ParseInt(field) == CHOOSE v \in CsvNumbers : ToString(v) = field

\* pandas.read_csv: the first line names the columns (an unnamed first column
\* becomes "Unnamed: 0"), NA markers become missing values, a column whose
\* remaining fields all spell numbers becomes a number column, any other
\* column keeps its fields as text.
read_csv(csv) ==
  LET NumericColumn(j) ==
        \A i \in DOMAIN csv.lines :
          csv.lines[i][j] \in na_values \/ LooksNumeric(csv.lines[i][j])
      Cell(i, j) ==
        IF csv.lines[i][j] \in na_values THEN NullCell
        ELSE IF NumericColumn(j) THEN IntCell(ParseInt(csv.lines[i][j]))
        ELSE StrCell(csv.lines[i][j])
  IN [header |-> [j \in DOMAIN csv.header |->
                    IF csv.header[j] = "" THEN "Unnamed: 0" ELSE csv.header[j]],
      rows |-> [i \in DOMAIN csv.lines |->
                  [j \in DOMAIN csv.header |-> Cell(i, j)]]]

\* DataFrame.to_csv writes a missing value as the empty field, a number in
\* decimal and a text as it is.
Field(cell) ==
  CASE cell.kind = "null" -> ""
    [] cell.kind = "int" -> ToString(cell.n)
    [] cell.kind = "str" -> cell.s

\* df.to_csv() with the default index=True: a leading unnamed index column
to_csv_with_index(df) ==
  [header |-> << "" >> \o df.header,
   lines |-> [i \in DOMAIN df.rows |->
                << ToString(i - 1) >> \o
                [j \in DOMAIN df.header |-> Field(df.rows[i][j])]]]

\* df.to_csv(index=False)
to_csv(df) ==
  [header |-> df.header,
   lines |-> [i \in DOMAIN df.rows |->
                [j \in DOMAIN df.header |-> Field(df.rows[i][j])]]]

Spelling(s) ==
  CASE s = "France" -> << "F", "r", "a", "n", "c", "e" >>
    [] s = "Costa Rica" -> << "C", "o", "s", "t", "a", " ", "R", "i", "c", "a" >>
    [] s = "Arable land" -> << "A", "r", "a", "b", "l", "e", " ", "l", "a", "n", "d" >>
    [] s = "Irrigation area" -> << "I", "r", "r", "i", "g", "a", "t", "i", "o", "n", " ", "a", "r", "e", "a" >>
    [] s = "Nutrient balance" -> << "N", "u", "t", "r", "i", "e", "n", "t", " ", "b", "a", "l", "a", "n", "c", "e" >>
    [] s = "Nitrogen" -> << "N", "i", "t", "r", "o", "g", "e", "n" >>
    [] s = "Phosphorus" -> << "P", "h", "o", "s", "p", "h", "o", "r", "u", "s" >>
    [] s = "energy_consumption_" -> << "e", "n", "e", "r", "g", "y", "_", "c", "o", "n", "s", "u", "m", "p", "t", "i", "o", "n", "_" >>
    [] s = "_water_data.csv" -> << "_", "w", "a", "t", "e", "r", "_", "d", "a", "t", "a", ".", "c", "s", "v" >>
    [] s = "normalized_" -> << "n", "o", "r", "m", "a", "l", "i", "z", "e", "d", "_" >>
    [] s = "_surplus.csv" -> << "_", "s", "u", "r", "p", "l", "u", "s", ".", "c", "s", "v" >>
    [] s = "_2012_2021.csv" -> << "_", "2", "0", "1", "2", "_", "2", "0", "2", "1", ".", "c", "s", "v" >>
    [] s = "_report.csv" -> << "_", "r", "e", "p", "o", "r", "t", ".", "c", "s", "v" >>
    [] s = ".csv" -> << ".", "c", "s", "v" >>
    [] s = "multi_country_kpi.csv" -> << "m", "u", "l", "t", "i", "_", "c", "o", "u", "n", "t", "r", "y", "_", "k", "p", "i", ".", "c", "s", "v" >>
    [] s = "sustainability_summary.csv" -> << "s", "u", "s", "t", "a", "i", "n", "a", "b", "i", "l", "i", "t", "y", "_", "s", "u", "m", "m", "a", "r", "y", ".", "c", "s", "v" >>

ascii_uppercase == << "A", "B", "C", "D", "E", "F", "G", "H", "I", "J", "K", "L", "M", "N", "O", "P", "Q", "R", "S", "T", "U", "V", "W", "X", "Y", "Z" >>

ascii_lowercase == << "a", "b", "c", "d", "e", "f", "g", "h", "i", "j", "k", "l", "m", "n", "o", "p", "q", "r", "s", "t", "u", "v", "w", "x", "y", "z" >>

\* str.lower()
lower(s) ==
  [i \in DOMAIN s |->
     IF \E k \in DOMAIN ascii_uppercase : ascii_uppercase[k] = s[i]
       THEN ascii_lowercase[CHOOSE k \in DOMAIN ascii_uppercase :
                              ascii_uppercase[k] = s[i]]
     ELSE s[i]]

\* str.replace(old, new) for a one-character old and new
replace(s, old, new) == [i \in DOMAIN s |-> IF s[i] = old THEN new ELSE s[i]]

\* The columns of a cleaned file that the downloads depend on.
ExportColumns ==
  << "Reference area", "Measure", "Nutrients", "Unit multiplier", "Value" >>

\* Lines a cleaned file may hold: observations with and without a value, and
\* unit multipliers given by label or by power of ten.
CsvLines ==
  { << "France", "Arable land", "", "Thousands", "5" >>,
    << "Costa Rica", "Arable land", "", "6", "12" >>,
    << "France", "Nutrient balance", "Nitrogen", "Units", "" >>,
    << "Costa Rica", "Irrigation area", "", "Thousands", "0" >>,
    << "Costa Rica", "Nutrient balance", "Phosphorus", "3", "7" >> }

CsvInputs ==
  { [header |-> ExportColumns, lines |-> ls] : ls \in SeqsUpTo(CsvLines, MaxCsvRows) }

ColumnOf(df, name) == CHOOSE j \in DOMAIN df.header : df.header[j] = name

\* df[df[name] == value]
RowsEqual(df, name, value) ==
  [header |-> df.header,
   rows |-> SelectSeq(df.rows,
                      LAMBDA r : r[ColumnOf(df, name)] = StrCell(value))]

\* df[name].dropna().unique(), for a text column
TextOptions(df, name) ==
  { df.rows[i][ColumnOf(df, name)].s :
      i \in { k \in DOMAIN df.rows : df.rows[k][ColumnOf(df, name)].kind = "str" } }

\* df[mask]["Value"].sum(): missing values are skipped
RECURSIVE CellSum(_)
CellSum(cells) ==
  IF cells = << >> THEN 0
  ELSE (IF Head(cells).kind = "int" THEN Head(cells).n ELSE 0) + CellSum(Tail(cells))

\* compare_countries_report and section_summary: one row per selected country,
\* reduced to the country and the arable land column named by the caller.
IndicatorTable(df, selected_countries, column) ==
  [header |-> << "Country", column >>,
   rows |-> [c \in DOMAIN selected_countries |->
               LET agri_c == RowsEqual(RowsEqual(df, "Reference area", selected_countries[c]),
                                       "Measure", "Arable land")
               IN << StrCell(selected_countries[c]),
                     IntCell(CellSum([i \in DOMAIN agri_c.rows |->
                                        agri_c.rows[i][ColumnOf(df, "Value")]])) >>]]

\* water.py: water_filtered['Value_normalized'] = Value * multiplier
WithValueNormalized(df) ==
  [header |-> Append(df.header, "Value_normalized"),
   rows |-> [i \in DOMAIN df.rows |->
     LET value == df.rows[i][ColumnOf(df, "Value")]
         mult == df.rows[i][ColumnOf(df, "Unit multiplier")]
         factor == IF mult.kind = "str"
                     THEN FillNa(MapDict(water_multiplier_map, mult.s), 1)
                   ELSE 1
     IN Append(df.rows[i],
               IF value.kind = "int" THEN IntCell(value.n * factor) ELSE NullCell)]]

\* st.download_button(data=table.to_csv(index=False), file_name=...)
Download(site, table, file_name) ==
  /\ fn' = site
  /\ res' = Some([site |-> site, table |-> table, data |-> to_csv(table),
                  file_name |-> file_name])
  /\ UNCHANGED <<arg, ref, app_vars, conc_vars>>

\* upload_data.py reads the cleaned file; load_table returns what it stored.
Uploaded == read_csv(Get(arg))

InitExport ==
  /\ AppOff
  /\ fn = "input"
  /\ arg \in { Some(csv) : csv \in CsvInputs }
  /\ res = None
  /\ ref = None

energy_download ==
  /\ fn = "input"
  /\ \E selected_measure \in TextOptions(Uploaded, "Measure") :
       Download("section_energy",
                RowsEqual(Uploaded, "Measure", selected_measure),
                Spelling("energy_consumption_")
                  \o replace(lower(Spelling(selected_measure)), " ", "_")
                  \o Spelling(".csv"))

water_download ==
  /\ fn = "input"
  /\ \E selected_measure \in TextOptions(Uploaded, "Measure") :
       Download("section_water",
                RowsEqual(Uploaded, "Measure", selected_measure),
                replace(lower(Spelling(selected_measure)), " ", "_")
                  \o Spelling("_water_data.csv"))

water_py_download ==
  /\ fn = "input"
  /\ \E use_type \in TextOptions(Uploaded, "Measure") :
       Download("water_py_section_water",
                WithValueNormalized(RowsEqual(Uploaded, "Measure", use_type)),
                Spelling("normalized_")
                  \o replace(lower(Spelling(use_type)), " ", "_")
                  \o Spelling("_2012_2021.csv"))

\* df_norm reduced to the observations of the selected nutrient
environment_download ==
  /\ fn = "input"
  /\ \E nutrient \in TextOptions(Uploaded, "Nutrients") :
       Download("section_environment",
                RowsEqual(Uploaded, "Nutrients", nutrient),
                Spelling("normalized_") \o lower(Spelling(nutrient))
                  \o Spelling("_surplus.csv"))

single_country_download ==
  /\ fn = "input"
  /\ \E selected_country \in TextOptions(Uploaded, "Reference area") :
       Download("single_country_report",
                RowsEqual(Uploaded, "Reference area", selected_country),
                Spelling(selected_country) \o Spelling("_report.csv"))

compare_countries_download ==
  /\ fn = "input"
  /\ \E country \in TextOptions(Uploaded, "Reference area") :
       Download("compare_countries_report",
                IndicatorTable(Uploaded, << country >>, "Arable Land"),
                Spelling("multi_country_kpi.csv"))

summary_download ==
  /\ fn = "input"
  /\ \E country \in TextOptions(Uploaded, "Reference area") :
       Download("section_summary",
                IndicatorTable(Uploaded, << country >>, "Arable Land (ha)"),
                Spelling("sustainability_summary.csv"))

NextExport ==
  \/ energy_download
  \/ water_download
  \/ water_py_download
  \/ environment_download
  \/ single_country_download
  \/ compare_countries_download
  \/ summary_download

SpecExport == InitExport /\ [][NextExport]_vars

\* A text column of the table whose cells all read as numbers or NA markers.
TextColumnReadsAsNumbers(table) ==
  \E j \in DOMAIN table.header :
    /\ \E i \in DOMAIN table.rows : table.rows[i][j].kind = "str"
    /\ \A i \in DOMAIN table.rows :
         table.rows[i][j].kind = "str" => LooksNumeric(table.rows[i][j].s)

C15_FileNamesAreLowerCaseWithoutSpaces ==
  res # None =>
    \A i \in DOMAIN Get(res).file_name :
      /\ Get(res).file_name[i] \notin Range(ascii_uppercase)
      /\ Get(res).file_name[i] # " "

\* ---------------------------------------------------------------------------
\* Reruns: each interaction runs app.py from its first line to its last.  The
\* runs of two sections that read the "area" relation are taken whole here:
\* section_intro shows the four frames as load_table returned them, and
\* section_area writes a column into its frame and derives tables from it.
\* Between interactions the process keeps the cache of load_table only.
\* ---------------------------------------------------------------------------

\* the end of a run that rendered: res is what it showed; ref keeps the first
\* run that rendered, whether a later run had its section and selections, and
\* whether a run of another section came in between
Rendered(r, selections, out) ==
  /\ fn' = r
  /\ res' = Some([fn |-> r, params |-> selections, out |-> out])
  /\ ref' = IF ref = None
              THEN Some([fn |-> r, params |-> selections, out |-> out,
                         repeated |-> FALSE, others |-> FALSE])
            ELSE IF Get(ref).fn = r /\ Get(ref).params = selections
              THEN Some([Get(ref) EXCEPT !.repeated = TRUE])
            ELSE IF ~Get(ref).repeated
              THEN Some([Get(ref) EXCEPT !.others = TRUE])
            ELSE ref

\* the end of a run that an exception ended
Aborted(r) ==
  /\ fn' = r
  /\ res' = None
  /\ ref' = ref

\* sections/intro.py:25-28, the four loads in their order
IntroLoads == << "agri", "area", "water", "energy" >>

\* app.py: the user selects "1. Introduction"
rerun_section_intro ==
  /\ fn # "off"
  /\ \E reachable \in [TableNames -> BOOLEAN] :
       LET call == [n \in TableNames |-> load_table(n, reachable[n])]
           failed == { i \in DOMAIN IntroLoads : call[IntroLoads[i]].err # "none" }
           made == { IntroLoads[i] :
                       i \in { k \in DOMAIN IntroLoads :
                                 \A f \in failed : k <= f } }
       IN /\ cache' = [n \in TableNames |->
                         IF n \in made THEN call[n].entry ELSE cache[n]]
          /\ returned' = [n \in TableNames |->
                            IF n \in made /\ returned[n] = None
                              THEN call[n].df ELSE returned[n]]
          /\ IF failed = {}
               THEN Rendered("section_intro", << >>,
                             [n \in TableNames |-> Get(call[n].df)])
             ELSE Aborted("section_intro")
  /\ UNCHANGED <<db, uploads, pc, section, renderer, pending, frames, lastOp,
                 outcome, prevFail, download, arg, conc_vars>>

\* sections/area.py:20
total_like == {"Arable land and permanent crops", "Agricultural area"}

\* app.py: the user selects "4. Land Use"; the selection is the land type of
\* the map
rerun_section_area ==
  /\ fn # "off"
  /\ \E reachable \in BOOLEAN :
       LET call == load_table("area", reachable)
       IN IF call.err # "none"
            THEN /\ cache' = cache
                 /\ returned' = returned
                 /\ Aborted("section_area")
          ELSE
            LET written == WithColumn(Get(call.df), "Value_norm", AreaValueNorm)
                area == Filter(written, LAMBDA r : ~ContainsTotal(r.Measure))
                land_types_of_interest == Unique(area, "Measure") \ total_like
            IN /\ cache' = [cache EXCEPT !["area"] =
                              IF call.shared THEN Some(written) ELSE call.entry]
               /\ returned' = IF returned["area"] = None
                                THEN [returned EXCEPT !["area"] = call.df]
                              ELSE returned
               /\ IF \E i \in 1..Len(written.rows) : written.rows[i].Measure = NA
                    THEN Aborted("section_area")
                  ELSE \E selected_type \in Selectbox(land_types_of_interest) :
                         Rendered("section_area", selected_type,
                                  [area |-> area,
                                   subset |-> Filter(area,
                                     LAMBDA r : Some(r.Measure) = selected_type)])
  /\ UNCHANGED <<db, uploads, pc, section, renderer, pending, frames, lastOp,
                 outcome, prevFail, download, arg, conc_vars>>

InitRerun ==
  /\ db \in {Fresh, Populated}
  /\ AppStart
  /\ ConcOff
  /\ fn = "start"
  /\ arg = None
  /\ res = None
  /\ ref = None

\* upload_data.py may run between any two interactions
NextRerun ==
  \/ upload_data
  \/ rerun_section_intro
  \/ rerun_section_area

SpecRerun == InitRerun /\ [][NextRerun]_vars

\* C18: a run that ends with the section and the selections of an earlier run
\* shows the tables the earlier run showed, whichever sections ran, loads
\* failed or uploads were made in between: a run depends on the selections
\* and on the tables as first loaded, which the cache carries unchanged.
C18_SameSectionSameSelectionsSameTables ==
  /\ (/\ ref # None
      /\ res # None
      /\ Get(res).fn = Get(ref).fn
      /\ Get(res).params = Get(ref).params)
       => Get(res).out = Get(ref).out
  /\ \A n \in TableNames :
       returned[n] # None => cache[n] = returned[n]

\* section_intro rendered a second time, after section_area ran in between
\* and after the area relation was replaced in the database
C18_Witness ==
  /\ ref # None
  /\ res # None
  /\ Get(ref).fn = "section_intro"
  /\ Get(res).fn = "section_intro"
  /\ Get(ref).repeated
  /\ Get(ref).others
  /\ db["area"] # Some(Get(res).out["area"])

\* ---------------------------------------------------------------------------
\* load_table called from several sessions at once.  Streamlit runs the script
\* of each session in a thread of its own, so two interactions can be inside
\* load_table together.  A call first reads the cache; on a miss it takes the
\* cache's compute lock of the argument value, reads the cache again, and only
\* on a second miss runs the function body and stores what it returned before
\* it gives the lock back.
\* ---------------------------------------------------------------------------

MaxSessions == 2

Sessions == 1 .. MaxSessions

\* the names the sessions ask for: the two relations most sections load
ConcNames == {"agri", "area"}

Thread(pc_, name, got, path) ==
  [pc |-> pc_, name |-> name, got |-> got, path |-> path]

\* db.py:19-26, the function under the decorator
load_table_body(table_name, reachable) ==
  IF ~reachable
    THEN Call("connect", "OperationalError", None, None, FALSE, 1)
  ELSE IF db[table_name] = None
    THEN Call("query", "ProgrammingError", None, None, FALSE, 1)
  ELSE Call("query", "none", db[table_name], db[table_name], FALSE, 1)

\* a cache without the compute lock
LockIsIgnored(name) == TRUE

\* the compute lock of a name can be taken
LockIsFree(name) == locks[name] = 0

InitConc ==
  /\ db = Populated
  /\ AppStart
  /\ fn = "off" /\ arg = None /\ res = None /\ ref = None
  /\ threads = [t \in Sessions |-> Thread("idle", NA, None, "none")]
  /\ locks = [n \in TableNames |-> 0]
  /\ queries = [n \in TableNames |-> [ok |-> 0, failed |-> 0]]

ConcUnchanged ==
  UNCHANGED <<db, uploads, pc, section, renderer, pending, frames, lastOp,
              outcome, returned, prevFail, download, pipe_vars>>

\* the script of session t calls load_table(name)
conc_call(t) ==
  /\ threads[t].pc = "idle"
  /\ \E name \in ConcNames :
       threads' = [threads EXCEPT ![t] = Thread("read", name, None, "none")]
  /\ UNCHANGED <<cache, locks, queries>>
  /\ ConcUnchanged

\* the first read of the cache, without the lock
conc_read(t) ==
  /\ threads[t].pc = "read"
  /\ LET name == threads[t].name
     IN threads' = [threads EXCEPT ![t] =
                      IF cache[name] # None
                        THEN Thread("done", name, load_table(name, TRUE).df, "hit")
                      ELSE Thread("wait", name, None, "none")]
  /\ UNCHANGED <<cache, locks, queries>>
  /\ ConcUnchanged

\* with cache.compute_value_lock(value_key)
conc_acquire(t) ==
  /\ threads[t].pc = "wait"
  /\ LockIsFree(threads[t].name)
  /\ locks' = [locks EXCEPT ![threads[t].name] = t]
  /\ threads' = [threads EXCEPT ![t].pc = "locked"]
  /\ UNCHANGED <<cache, queries>>
  /\ ConcUnchanged

\* the second read of the cache, with the lock held
conc_recheck(t) ==
  /\ threads[t].pc = "locked"
  /\ LET name == threads[t].name
     IN IF cache[name] # None
          THEN /\ threads' = [threads EXCEPT ![t] =
                                Thread("done", name, load_table(name, TRUE).df,
                                       "recheck")]
               /\ locks' = [locks EXCEPT ![name] = 0]
        ELSE /\ threads' = [threads EXCEPT ![t].pc = "compute"]
             /\ locks' = locks
  /\ UNCHANGED <<cache, queries>>
  /\ ConcUnchanged

\* the function body runs; its value is stored when it returns, and the lock
\* is given back either way
conc_compute(t) ==
  /\ threads[t].pc = "compute"
  /\ \E reachable \in BOOLEAN :
       LET name == threads[t].name
           call == load_table_body(name, reachable)
       IN /\ locks' = [locks EXCEPT ![name] = 0]
          /\ IF call.err = "none"
               THEN /\ cache' = [cache EXCEPT ![name] = call.entry]
                    /\ queries' = [queries EXCEPT ![name].ok = @ + 1]
                    /\ threads' = [threads EXCEPT ![t] =
                                     Thread("done", name, call.df, "computed")]
             ELSE /\ cache' = cache
                  /\ queries' = [queries EXCEPT ![name].failed = @ + 1]
                  /\ threads' = [threads EXCEPT ![t] =
                                   Thread("raised", name, None, call.err)]
  /\ ConcUnchanged

\* upload_data.py run while the sessions are served
conc_upload ==
  /\ upload_data
  /\ UNCHANGED conc_vars

NextConc ==
  \/ \E t \in Sessions : conc_call(t)
  \/ \E t \in Sessions : conc_read(t)
  \/ \E t \in Sessions : conc_acquire(t)
  \/ \E t \in Sessions : conc_recheck(t)
  \/ \E t \in Sessions : conc_compute(t)
  \/ conc_upload

SpecConc == InitConc /\ [][NextConc]_vars

MaxAreaRows == 2

\* observations of land-use types, of a measure named "Total ..." and of the
\* two combined measures that area.py lists as total_like
AreaRows ==
  { Row("France", 2015, "Arable land", 3, "Thousands", "Hectares", NA),
    Row("Germany", 2010, "Permanent pasture", 2, "Thousands", "Hectares", NA),
    Row("France", 2015, "Total agricultural land", 4, "Millions", "Hectares", NA),
    Row("France", 2015, "Agricultural area", 5, "Thousands", "Hectares", NA),
    Row("Germany", 1995, "Arable land and permanent crops", 1, "Thousands",
        "Hectares", NA) }

AreaFrames == { Table(rs) : rs \in SeqsUpTo(AreaRows, MaxAreaRows) }

InitArea ==
  /\ AppOff
  /\ fn = "input"
  /\ arg \in AreaFrames
  /\ res = None
  /\ ref = None

\* groupby(col)['Value_norm'].sum().reset_index(): one row per key
GroupSumBy(df, col) ==
  { [key |-> k,
     Value_norm |-> Sum(LET kept == SelectSeq(df.rows, LAMBDA r : r[col] = k)
                        IN [i \in 1..Len(kept) |-> kept[i].Value_norm])] :
      k \in Unique(df, col) }

\* lines 16-19: the frame all charts start from
area_without_totals ==
  Filter(WithColumn(arg, "Value_norm", AreaValueNorm),
         LAMBDA r : ~ContainsTotal(r.Measure))

\* line 21
land_types_of_interest == Unique(area_without_totals, "Measure") \ total_like

\* a chart was drawn: source is the frame its groupby aggregates
Chart(name, source, table) ==
  /\ fn = "input"
  /\ fn' = name
  /\ res' = Some([chart |-> name, source |-> source, table |-> table])
  /\ UNCHANGED <<arg, ref, app_vars, conc_vars>>

\* lines 28-34
area_global_land ==
  LET source == Filter(area_without_totals,
                       LAMBDA r : r.Measure \in land_types_of_interest)
  IN Chart("global_land", source, GroupSumBy(source, "Measure"))

\* lines 49-52
area_country_land ==
  \E selected_country \in Selectbox(Unique(area_without_totals, "Reference_area")) :
    LET sub_country ==
          Filter(area_without_totals,
                 LAMBDA r : Some(r.Reference_area) = selected_country)
    IN Chart("country_land", sub_country, GroupSumBy(sub_country, "Measure"))

\* lines 67-70; the country code goes with the country
area_country_agg ==
  \E selected_type \in Selectbox(land_types_of_interest) :
    LET subset == Filter(area_without_totals,
                         LAMBDA r : Some(r.Measure) = selected_type)
    IN Chart("country_agg", subset, GroupSumBy(subset, "Reference_area"))

\* lines 90-93, grouped by year and measure
area_ts_data ==
  \E selected_ts_types \in SUBSET land_types_of_interest :
    LET source == Filter(area_without_totals,
                         LAMBDA r : /\ r.Measure \in selected_ts_types
                                    /\ r.Year >= 2000
                                    /\ r.Year <= 2020)
    IN Chart("ts_data", source,
             { [key |-> <<y, m>>,
                Value_norm |->
                  Sum(LET kept == SelectSeq(source.rows,
                                    LAMBDA r : r.Year = y /\ r.Measure = m)
                      IN [i \in 1..Len(kept) |-> kept[i].Value_norm])] :
                 <<y, m>> \in { <<source.rows[i].Year, source.rows[i].Measure>> :
                                  i \in 1..Len(source.rows) } })

NextArea ==
  \/ area_global_land
  \/ area_country_land
  \/ area_country_agg
  \/ area_ts_data

SpecArea == InitArea /\ [][NextArea]_vars

\* C21: no chart of Land Use aggregates a row whose Measure contains "total"
\* or is one of the two combined measures.
C21_NoChartAggregatesTotals ==
  res # None =>
    \A i \in 1..Len(Get(res).source.rows) :
      /\ ~ContainsTotal(Get(res).source.rows[i].Measure)
      /\ Get(res).source.rows[i].Measure \notin total_like

\* ---------------------------------------------------------------------------
\* The top-k tables on frames with more groups than the cut keeps
\* (specification SpecCut): one row per country, its Value the country's only
\* observation, which may be missing.
\* ---------------------------------------------------------------------------

\* groups beyond the number a cut keeps
MaxExtraGroups == 1

RankAreas ==
  << "Australia", "Austria", "Belgium", "Canada", "Chile", "Colombia",
     "Denmark", "Estonia", "Finland", "France", "Germany", "Greece",
     "Hungary", "Iceland", "Ireland", "Israel", "Italy", "Japan", "Korea",
     "Latvia", "Lithuania", "Luxembourg", "Mexico", "Netherlands" >>

\* the sizes of the frames: none, few, and each cut met and exceeded
RankSizes == {0, 1, 2} \cup {k + e : k \in {10, 15, 20}, e \in 0..MaxExtraGroups}

\* Values rising with the position, so that a ranking reorders all rows;
\* then either row b given the Value of row a, or rows a and b given none
RankFrame(n, a, b, mode) ==
  [i \in 1..n |->
     [Reference_area |-> RankAreas[i],
      Value |-> IF mode = "null" /\ i \in {a, b} THEN NaN
                ELSE IF mode = "tie" /\ i = b THEN a
                ELSE i]]

CutFrames ==
  UNION { { RankFrame(n, a, b, mode) :
              a \in 1..n, b \in 1..n, mode \in {"plain", "tie", "null"} } :
          n \in RankSizes } \cup { << >> }

InitCut ==
  /\ AppOff
  /\ fn = "input"
  /\ arg \in CutFrames
  /\ res = None
  /\ ref = None

\* groupby("Reference area")["Value"].sum() with one row per country: a
\* missing Value sums to 0
SumPerCountry(rows) ==
  [i \in 1..Len(rows) |->
     [rows[i] EXCEPT !.Value = IF @ = NaN THEN 0 ELSE @]]

\* sections/emissions.py line 102
emissions_df_nh3_country == Rank("emissions.df_nh3_country", nlargest(arg, 10))

\* sections/water.py line 60
water_df_top == Rank("water.df_top", nlargest(arg, 10))

\* sections/water.py line 132
water_top20 == Rank("water.top20", nlargest(SumPerCountry(arg), 20))

NextCut ==
  \/ NextTopK
  \/ emissions_df_nh3_country
  \/ water_df_top
  \/ water_top20

SpecCut == InitCut /\ [][NextCut]_vars

\* the k of each place, as the reports name it
TopK ==
  CASE fn \in {"environment.df_top", "emissions.df_nh3_country", "water.df_top"} -> 10
    [] fn \in {"energy.df_top", "emissions.df_bar"} -> 15
    [] fn \in {"water.top20", "water.top20_tree"} -> 20

\* the groups that were ranked and the value each was ranked by: a sum over
\* no value is 0, a mean over no value is null
RankedGroups ==
  IF fn \in {"water.top20", "water.top20_tree"}
    THEN [i \in 1..Len(arg) |->
            [arg[i] EXCEPT !.Value = IF @ = NaN THEN 0 ELSE @]]
  ELSE arg

Smaller(a, b) == IF a < b THEN a ELSE b

\* the table is in non-increasing order of value (null values last), its rows
\* are groups that were ranked, each once, and no group left out has a value
\* greater than one that is in
IsLargestFirst(table) ==
  /\ \A i, j \in 1..Len(table) : i < j => table[i].Value >= table[j].Value
  /\ \A i \in 1..Len(table) : \E g \in 1..Len(RankedGroups) : RankedGroups[g] = table[i]
  /\ \A i, j \in 1..Len(table) :
       i # j => table[i].Reference_area # table[j].Reference_area
  /\ \A g \in 1..Len(RankedGroups) :
       (\A i \in 1..Len(table) : table[i] # RankedGroups[g])
         => \A i \in 1..Len(table) : ~(RankedGroups[g].Value > table[i].Value)

RanksWithNlargest ==
  fn \in {"environment.df_top", "emissions.df_nh3_country", "water.df_top",
          "energy.df_top", "water.top20"}

RowsOfPair(country, year) ==
  {k \in 1..Len(KpiTable) :
     KpiTable[k].Country = country /\ KpiTable[k].Year = year}

\* C26: the KPI table of the comparison and that of the summary hold exactly
\* one row for every selected country and selected year, also for a pair of
\* which the frames have no row, and the rows stand by Year ascending and,
\* within a year, by Country ascending.
C26_OneRowPerPairByYearThenCountry ==
  (res # None /\ ~Get(res).out.warning) =>
    LET countries == Range(Get(res).params.selected_countries)
        years == Range(Get(res).params.selected_years)
    IN /\ Len(KpiTable) = Cardinality(countries) * Cardinality(years)
       /\ \A c \in countries, y \in years :
            Cardinality(RowsOfPair(c, y)) = 1
       /\ \A k \in 1..Len(KpiTable) :
            KpiTable[k].Country \in countries /\ KpiTable[k].Year \in years
       /\ \A k \in 1..(Len(KpiTable) - 1) :
            \/ KpiTable[k].Year < KpiTable[k + 1].Year
            \/ /\ KpiTable[k].Year = KpiTable[k + 1].Year
               /\ NameRank(KpiTable[k].Country)
                    < NameRank(KpiTable[k + 1].Country)

\* the comparison of Germany and France, picked in that order, over 2015 and
\* 2014 on the frames without a row of 2014 for either: four rows, the two
\* of 2014 first and France before Germany in each year
C26_Witness ==
  /\ res # None
  /\ Get(res).fn = "compare_countries"
  /\ Get(res).params.selected_countries = <<"Germany", "France">>
  /\ Get(res).params.selected_years = <<2015, 2014>>
  /\ Len(arg.agri.rows) = 6
  /\ Get(res).out.agri_filtered.rows # << >>
  /\ \A i \in 1..Len(Get(res).out.agri_filtered.rows) :
       Get(res).out.agri_filtered.rows[i].Year = 2015
  /\ [k \in 1..4 |-> <<KpiTable[k].Year, KpiTable[k].Country>>]
       = << <<2014, "France">>, <<2014, "Germany">>,
            <<2015, "France">>, <<2015, "Germany">> >>
  /\ KpiTable[1].Arable_Land = 0
  /\ KpiTable[2].Nitrogen_Surplus.n = 0

\* ---------------------------------------------------------------------------
\* sections/advanced_single_country.py, and the three reports of "Advanced
\* Analytics" run with any selection the widgets allow (specification
\* SpecReport).  A number shown on a card is kept as a fraction sum/n, which
\* is null for n = 0.
\* ---------------------------------------------------------------------------
\* agri rows beyond the first ones
MaxReportRows == 1

\* `if not selected_years` (line 22)
no_year(selected_years) == selected_years = << >>

\* a slip: the rows of the country, whatever their year
FilterCountry_of_any_year(df, selected_country, selected_years) ==
  Filter(df, LAMBDA r : r.Reference_area = selected_country)

\* df[(df["Reference area"] == selected_country)
\*    & (df["Year"].isin(selected_years))]   (lines 27-30)
FilterCountry(df, selected_country, selected_years) ==
  Filter(df, LAMBDA r : /\ r.Reference_area = selected_country
                        /\ r.Year \in Range(selected_years))

\* max(selected_years) (line 71)
latest_year(selected_years) ==
  CHOOSE y \in Range(selected_years) :
    \A other \in Range(selected_years) : other <= y

\* latest_year - 1 if latest_year - 1 in selected_years else None (line 72)
previous_year(selected_years) ==
  IF latest_year(selected_years) - 1 \in Range(selected_years)
    THEN Some(latest_year(selected_years) - 1)
  ELSE None

\* a sum as a fraction
Whole(v) == [sum |-> v, n |-> 1]

\* pd.notnull
notnull(v) == v.n # 0

\* a slip: the delta shown whenever the previous value is a number
render_card_dividing_by_zero(title, current, previous) ==
  [title |-> title, current |-> current, previous |-> previous,
   display_value |-> IF notnull(current) THEN current ELSE Whole(0),
   delta |-> IF previous # None /\ notnull(Get(previous))
               THEN Some([arrow |-> "↓", color |-> "red", change |-> None])
             ELSE None]

\* render_card (lines 73-88): previous is None (no previous year), or a
\* number that may be null.  change is ((current - previous) / previous)
\* * 100 as a fraction, None standing for NaN; NaN > 0 is False.
render_card(title, current, previous) ==
  LET prev == Get(previous)
      change ==
        IF notnull(current)
          THEN Some([num |-> 100 * (current.sum * prev.n - prev.sum * current.n),
                     den |-> current.n * prev.sum])
        ELSE None
      positive == change # None /\ Get(change).num * Get(change).den > 0
      Abs(x) == IF x < 0 THEN 0 - x ELSE x
  IN [title |-> title, current |-> current, previous |-> previous,
      display_value |-> IF notnull(current) THEN current ELSE Whole(0),
      delta |->
        IF previous # None /\ notnull(prev) /\ prev.sum # 0
          THEN Some([arrow |-> IF positive THEN "↑" ELSE "↓",
                     color |-> IF positive THEN "green" ELSE "red",
                     change |-> IF change = None THEN None
                                ELSE Some([num |-> Abs(Get(change).num),
                                           den |-> Abs(Get(change).den)])])
        ELSE None]

\* the six cards of lines 95-119: title, frame, column, value and aggregate
CardSources ==
  << <<"Nitrogen Surplus", "agri", "Nutrients", "Nitrogen", "mean">>,
     <<"Phosphorus Surplus", "agri", "Nutrients", "Phosphorus", "mean">>,
     <<"GHG Emissions", "agri", "Measure", "Total greenhouse gas emissions",
       "sum">>,
     <<"Energy Use", "energy", "Measure",
       "Direct on-farm energy consumption", "sum">>,
     <<"Water Use", "agri", "Measure", "Agriculture freshwater abstraction",
       "sum">>,
     <<"Arable Land", "agri", "Measure", "Arable land", "sum">> >>

\* frame[(frame[col] == value) & (frame["Year"] == year)]["Value"].mean() or
\* .sum()
CardValue(frame, col, value, year, how) ==
  LET values == ValuesWhere(frame, LAMBDA r : r[col] = value /\ r.Year = year)
  IN IF how = "mean" THEN Mean(values) ELSE Whole(Sum(values))

\* lines 92-119; `... if previous_year else None`
Cards(agri_country, energy_country, selected_years) ==
  [k \in 1..Len(CardSources) |->
     LET source == CardSources[k]
         frame == IF source[2] = "agri" THEN agri_country ELSE energy_country
         prev_year == previous_year(selected_years)
     IN render_card(source[1],
                    CardValue(frame, source[3], source[4],
                              latest_year(selected_years), source[5]),
                    IF prev_year # None /\ Get(prev_year) # 0
                      THEN Some(CardValue(frame, source[3], source[4],
                                          Get(prev_year), source[5]))
                    ELSE None)]

\* "emission" in g.lower(), and "water" in m.lower() or "irrigation" in
\* m.lower(), decided per measure name of the frames below
ContainsEmission(m) == m \in {"Total greenhouse gas emissions"}

ContainsWaterOrIrrigation(m) ==
  m \in {"Agriculture freshwater abstraction", "Total freshwater abstraction",
         "Irrigation area"}

\* str.contains("Hectares", na=False)
ContainsHectares(unit) == unit \in {"Hectares"}

\* df[df[col] == selected].groupby("Year")["Value"].mean() or .sum()
PerYear(df, col, selected, how) ==
  { [Year |-> y,
     Value |-> LET values == ValuesWhere(df, LAMBDA r : r[col] = selected
                                                        /\ r.Year = y)
               IN IF how = "mean" THEN Mean(values) ELSE Whole(Sum(values))] :
      y \in {df.rows[i].Year :
               i \in {j \in 1..Len(df.rows) : df.rows[j][col] = selected}} }

\* one analysis of lines 124-198: a line chart of what the selectbox has,
\* or a note when it has no option
Analysis(df, col, picked, how) ==
  IF picked = None THEN [shown |-> "info"]
  ELSE [shown |-> "chart", selected |-> Get(picked),
        table |-> PerYear(df, col, Get(picked), how)]

\* sections/advanced_single_country.py lines 22-216 for one choice of the
\* widgets
single_country_run(selected_country, selected_years) ==
  /\ selected_country \in Unique(arg.agri, "Reference_area")
  /\ Offered(<< >>, selected_years)
  /\ LET agri_country ==
           FilterCountry(arg.agri, selected_country, selected_years)
         area_country ==
           FilterCountry(arg.area, selected_country, selected_years)
         energy_country ==
           FilterCountry(arg.energy, selected_country, selected_years)
         water_country ==
           FilterCountry(arg.water, selected_country, selected_years)
         nutrient_options == Unique(agri_country, "Nutrients")
         gas_choices ==
           {g \in Unique(agri_country, "Measure") : ContainsEmission(g)}
         energy_measures == Unique(energy_country, "Measure")
         water_options ==
           {m \in Unique(agri_country, "Measure") :
              ContainsWaterOrIrrigation(m)}
         land_options ==
           Unique(Filter(agri_country,
                         LAMBDA r : ContainsHectares(r.Unit_of_measure)),
                  "Measure")
     IN IF no_year(selected_years)
          THEN Ran("single_country",
                   [selected_country |-> selected_country,
                    selected_years |-> selected_years],
                   [warning |-> TRUE])
          ELSE \E selected_nutrient \in Selectbox(nutrient_options),
                  selected_gas \in Selectbox(gas_choices),
                  selected_energy \in Selectbox(energy_measures),
                  selected_water \in Selectbox(water_options),
                  selected_land \in Selectbox(land_options) :
                 Ran("single_country",
                     [selected_country |-> selected_country,
                      selected_years |-> selected_years,
                      selected_nutrient |-> selected_nutrient,
                      selected_gas |-> selected_gas,
                      selected_energy |-> selected_energy,
                      selected_water |-> selected_water,
                      selected_land |-> selected_land],
                     [warning |-> FALSE,
                      agri_country |-> agri_country,
                      area_country |-> area_country,
                      energy_country |-> energy_country,
                      water_country |-> water_country,
                      latest_year |-> latest_year(selected_years),
                      previous_year |-> previous_year(selected_years),
                      cards |-> Cards(agri_country, energy_country,
                                      selected_years),
                      fig_nutrient |-> Analysis(agri_country, "Nutrients",
                                                selected_nutrient, "mean"),
                      fig_gas |-> Analysis(agri_country, "Measure",
                                           selected_gas, "sum"),
                      fig_energy |-> Analysis(energy_country, "Measure",
                                              selected_energy, "sum"),
                      fig_water |-> Analysis(agri_country, "Measure",
                                             selected_water, "sum"),
                      fig_land |-> Analysis(agri_country, "Measure",
                                            selected_land, "sum"),
                      download |-> agri_country,
                      err |-> "none"])

\* every default of the country widgets has a row, as the widgets demand.
\* France: Nitrogen 6 after 4, no Phosphorus after -2, emissions 3 after 3,
\* arable land 2 after 5
ReportFirstRows ==
  << Row("France", 2015, "Nutrient balance", 6, "Units",
         "Kilograms per hectare", "Nitrogen"),
     Row("France", 2014, "Nutrient balance", 4, "Units",
         "Kilograms per hectare", "Nitrogen"),
     Row("Germany", 2015, "Arable land", 3, "Thousands", "Hectares", NA),
     Row("France", 2014, "Nutrient balance", 0 - 2, "Units",
         "Kilograms per hectare", "Phosphorus"),
     Row("France", 2015, "Total greenhouse gas emissions", 3, "Thousands",
         "Tonnes", NA),
     Row("Mexico", 2014, "Nutrient balance", 6, "Units",
         "Kilograms per hectare", "Nitrogen"),
     Row("France", 2014, "Total greenhouse gas emissions", 3, "Thousands",
         "Tonnes", NA),
     Row("France", 2015, "Arable land", 2, "Thousands", "Hectares", NA),
     Row("Germany", 2013, "Nutrient balance", 1, "Units",
         "Kilograms per hectare", "Nitrogen"),
     Row("France", 2014, "Arable land", 5, "Thousands", "Hectares", NA) >>

ReportMoreRows ==
  { \* a row a second time
    Row("France", 2015, "Nutrient balance", 6, "Units",
        "Kilograms per hectare", "Nitrogen"),
    \* a rise from a negative value
    Row("France", 2015, "Nutrient balance", 1, "Units",
        "Kilograms per hectare", "Phosphorus"),
    \* an observation without a Value
    Row("France", 2014, "Nutrient balance", NaN, "Units",
        "Kilograms per hectare", "Phosphorus"),
    Row("France", 2015, "Agriculture freshwater abstraction", 7, "Millions",
        "Cubic metres", NA) }

ReportAgriFrames ==
  {Table(ReportFirstRows \o more) : more \in SeqsUpTo(ReportMoreRows, MaxReportRows)}

ReportAreaFrames ==
  { Table(<< >>),
    Table(<< Row("Germany", 2015, "Arable land", 3, "Thousands", "Hectares", NA),
             Row("France", 2015, "Arable land", 2, "Thousands", "Hectares", NA),
             Row("France", 2013, "Arable land", 2, "Thousands", "Hectares", NA),
             Row("France", 2015, "Arable land", 2, "Thousands", "Hectares",
                 NA) >>) }

ReportEnergyFrames ==
  { Table(<< >>),
    Table(<< Row("France", 2015, "Direct on-farm energy consumption", 9,
                 "Thousands", "Tonnes of oil equivalent", NA),
             Row("Germany", 2014, "Direct on-farm energy consumption", 2,
                 "Thousands", "Tonnes of oil equivalent", NA),
             Row("France", 2014, "Direct on-farm energy consumption", NaN,
                 "Thousands", "Tonnes of oil equivalent", NA),
             Row("Germany", 2015, "Direct on-farm energy consumption", 4,
                 "Thousands", "Tonnes of oil equivalent", NA) >>) }

ReportWaterFrames ==
  { Table(<< Row("France", 2014, "Total freshwater abstraction", 8,
                 "Millions", "Cubic metres", NA),
             Row("Mexico", 2015, "Total freshwater abstraction", 1,
                 "Millions", "Cubic metres", NA) >>) }

\* what the user may have picked, in the order of picking
ReportCountrySelections == { << >>, <<"France">>, <<"Germany", "France">> }

ReportYearSelections ==
  { << >>, <<2015>>, <<2014>>, <<2015, 2014>>, <<2014, 2015>>, <<2015, 2013>> }

InitReport ==
  /\ AppOff
  /\ fn = "input"
  /\ arg \in [agri : ReportAgriFrames, area : ReportAreaFrames,
              energy : ReportEnergyFrames, water : ReportWaterFrames]
  /\ res = None
  /\ ref = None

\* one interaction with a report on the loaded frames
report_single_country ==
  /\ fn = "input"
  /\ \E selected_country \in Range(Alphabetical),
        selected_years \in ReportYearSelections :
       single_country_run(selected_country, selected_years)

report_compare_countries ==
  /\ fn = "input"
  /\ \E selected_countries \in ReportCountrySelections,
        selected_years \in ReportYearSelections,
        trend_type \in {"Nitrogen Surplus", "Energy Use"} :
       compare_countries_run(selected_countries, selected_years, trend_type)

report_summary ==
  /\ fn = "input"
  /\ \E selected_countries \in ReportCountrySelections,
        selected_years \in ReportYearSelections :
       summary_run(selected_countries, selected_years)

NextReport ==
  \/ report_single_country
  \/ report_compare_countries
  \/ report_summary

SpecReport == InitReport /\ [][NextReport]_vars

\* the positions of the rows of a frame whose country and year are selected
SelectedPositions(df, countries, years) ==
  {i \in 1..Len(df.rows) :
     df.rows[i].Reference_area \in countries /\ df.rows[i].Year \in years}

\* filtered holds the selected rows of df and no other, each as often as df
\* has it, unaltered and in the order of df
IsSelectionOf(filtered, df, countries, years) ==
  LET positions == SelectedPositions(df, countries, years)
      Nth(k) == CHOOSE i \in positions :
                  Cardinality({j \in positions : j <= i}) = k
  IN /\ filtered.columns = df.columns
     /\ Len(filtered.rows) = Cardinality(positions)
     /\ \A k \in 1..Len(filtered.rows) : filtered.rows[k] = df.rows[Nth(k)]

\* C23: the filtered frames of the single-country report (agri, area, energy
\* and water of the selected country) and of the comparison (agri and energy
\* of the selected countries) hold exactly the rows of the loaded frame whose
\* Reference area is selected and whose Year is among the selected years, in
\* the order of the loaded frame, none added, repeated or changed.
C23_FilterIsSoundAndComplete ==
  (res # None /\ ~Get(res).out.warning) =>
    LET out == Get(res).out
        params == Get(res).params
        years == Range(params.selected_years)
    IN /\ Get(res).fn = "single_country" =>
            /\ IsSelectionOf(out.agri_country, arg.agri,
                             {params.selected_country}, years)
            /\ IsSelectionOf(out.area_country, arg.area,
                             {params.selected_country}, years)
            /\ IsSelectionOf(out.energy_country, arg.energy,
                             {params.selected_country}, years)
            /\ IsSelectionOf(out.water_country, arg.water,
                             {params.selected_country}, years)
       /\ Get(res).fn = "compare_countries" =>
            /\ IsSelectionOf(out.agri_filtered, arg.agri,
                             Range(params.selected_countries), years)
            /\ IsSelectionOf(out.energy_filtered, arg.energy,
                             Range(params.selected_countries), years)

\* France over 2015 alone, on an agri frame that has the Nitrogen row of 2015
\* twice and rows of France of 2014 in between: the rows of 2015 are kept,
\* the repeated one twice, and the area frame keeps two of its four rows
C23_Witness ==
  /\ res # None
  /\ Get(res).fn = "single_country"
  /\ Get(res).params.selected_country = "France"
  /\ Get(res).params.selected_years = <<2015>>
  /\ Len(arg.agri.rows) = 11
  /\ arg.agri.rows[11] = arg.agri.rows[1]
  /\ Len(Get(res).out.agri_country.rows) = 4
  /\ Get(res).out.agri_country.rows[4] = Get(res).out.agri_country.rows[1]
  /\ Get(res).out.agri_country.rows[2].Measure
       = "Total greenhouse gas emissions"
  /\ Len(Get(res).out.area_country.rows) = 2
  /\ Len(Get(res).out.energy_country.rows) = 1

\* the value of a card's indicator in a year, taken over the rows of the
\* loaded frame: null when a mean has no value to be taken over
IndicatorOf(source, country, year) ==
  LET df == IF source[2] = "agri" THEN arg.agri ELSE arg.energy
      rows == NonNullMatches(df, country, year, source[3], source[4])
  IN [sum |-> Total(df, rows),
      n |-> IF source[5] = "mean" THEN Cardinality(rows) ELSE 1]

\* C24: in the single-country report the latest year is the greatest of the
\* selected years, and each of the six cards shows a percentage delta exactly
\* when the year before the latest is selected too and the indicator's value
\* of that year is neither null nor zero.
C24_DeltaIffPreviousYearUsable ==
  (res # None /\ Get(res).fn = "single_country" /\ ~Get(res).out.warning) =>
    LET out == Get(res).out
        params == Get(res).params
        years == Range(params.selected_years)
    IN /\ out.latest_year \in years
       /\ \A y \in years : y <= out.latest_year
       /\ Len(out.cards) = 6
       /\ \A k \in 1..6 :
            LET before == IndicatorOf(CardSources[k], params.selected_country,
                                      out.latest_year - 1)
            IN (out.cards[k].delta # None)
                 <=> /\ out.latest_year - 1 \in years
                     /\ before.n # 0
                     /\ before.sum # 0

\* France over 2014 and 2015, picked in that order: Nitrogen and arable land
\* have a delta, Water Use (sum 0 in 2014) and Energy Use (no value in 2014)
\* have none
C24_Witness ==
  /\ res # None
  /\ Get(res).fn = "single_country"
  /\ Get(res).params.selected_country = "France"
  /\ Get(res).params.selected_years = <<2014, 2015>>
  /\ Len(arg.energy.rows) = 4
  /\ Get(res).out.latest_year = 2015
  /\ Get(res).out.previous_year = Some(2014)
  /\ Get(res).out.cards[1].delta # None
  /\ Get(res).out.cards[6].delta # None
  /\ Get(res).out.cards[4].previous = Some(Whole(0))
  /\ Get(res).out.cards[4].delta = None
  /\ Get(res).out.cards[5].delta = None

\* current > previous and current < previous on fractions
Greater(a, b) == a.sum * b.n > b.sum * a.n

\* C25 (as claimed): a card that shows a delta has the up arrow in green
\* exactly when the current value is greater than the previous one, the down
\* arrow in red exactly when it is smaller, and neither when the two are equal
\* or the current value is null.
C25_ArrowFollowsTheChange ==
  (res # None /\ Get(res).fn = "single_country" /\ ~Get(res).out.warning) =>
    \A k \in 1..Len(Get(res).out.cards) :
      LET card == Get(res).out.cards[k]
          current == card.current
          previous == Get(card.previous)
          up == Get(card.delta).arrow = "↑" /\ Get(card.delta).color = "green"
          down == Get(card.delta).arrow = "↓" /\ Get(card.delta).color = "red"
      IN card.delta # None =>
           /\ up <=> (notnull(current) /\ Greater(current, previous))
           /\ down <=> (notnull(current) /\ Greater(previous, current))

\* C27: a run of a report with an empty selection (no year in the
\* single-country report; no country or no year in the comparison and in the
\* summary) shows the warning and nothing else: no filtered frame, KPI table,
\* card, chart or download.
C27_EmptySelectionOnlyWarns ==
  res # None =>
    LET params == Get(res).params
        empty == \/ params.selected_years = << >>
                 \/ /\ Get(res).fn # "single_country"
                    /\ params.selected_countries = << >>
    IN empty => Get(res).out = [warning |-> TRUE]

\* the comparison of Germany and France with no year picked
C27_Witness ==
  /\ res # None
  /\ Get(res).fn = "compare_countries"
  /\ Get(res).params.selected_countries = <<"Germany", "France">>
  /\ Get(res).params.selected_years = << >>
  /\ Get(res).out.warning
  /\ DOMAIN Get(res).out = {"warning"}

\* ---------------------------------------------------------------------------
\* The growth rates, ratios and percentages of the sections (specification
\* SpecRatio): sections/energy.py lines 73-96, 126-156 and 161-204,
\* sections/water.py lines 90-112, sections/environment.py lines 118-121 and
\* the delta of render_card.  Every run keeps the denominators of the
\* divisions it evaluated.  A quotient is kept as numerator and denominator.
\* ---------------------------------------------------------------------------
\* the longest series of observations of a country
MaxGrowthRows == 11

Farm == "Direct on-farm energy consumption"

TotalFinal == "Total final energy consumption"

EnergyRow(a, y, m, v) ==
  Row(a, y, m, v, "Thousands", "Tonnes of oil equivalent", NA)

\* the end of a run of one analysis on the loaded frames
Analysed(f, params, out) ==
  /\ fn = "input"
  /\ fn' = f
  /\ res' = Some([fn |-> f, params |-> params, out |-> out])
  /\ UNCHANGED <<arg, ref, app_vars, conc_vars>>

\* energy[energy['Year'] >= 1985] (line 20)
energy_filtered == Filter(arg.energy, LAMBDA r : r.Year >= EnergyFromYear)

\* line 25
measure_options == Unique(energy_filtered, "Measure")

\* line 27; the selectbox gives None when it has no option
energy_subset(selected_measure) ==
  Filter(energy_filtered,
         LAMBDA r : selected_measure # None /\ r.Measure = Get(selected_measure))

\* sort_values('Year') is not stable: iloc[0] is a row of the earliest year
\* and iloc[-1] another row, of the latest year
FirstAndLast(rows) ==
  {p \in (1..Len(rows)) \X (1..Len(rows)) :
     /\ p[1] # p[2]
     /\ \A i \in 1..Len(rows) : /\ rows[p[1]].Year <= rows[i].Year
                                /\ rows[i].Year <= rows[p[2]].Year}

\* a slip: the growth taken without a look at the first Value
growth_of_any_first_value(years_span, first_value) == years_span > 0

\* `if years_span > 0 and first_year['Value'] > 0` (line 83); NaN > 0 is False
growth_is_defined(years_span, first_value) ==
  years_span > 0 /\ first_value # NaN /\ first_value > 0

\* lines 77-94 for one country: the dict appended, if any, and the
\* denominators of lines 84-85
GrowthOf(country, subset) ==
  LET country_data == SelectSeq(subset.rows,
                                LAMBDA r : r.Reference_area = country)
  IN IF Len(country_data) < 10 THEN {[row |-> None, divisions |-> {}]}
     ELSE { LET first_year == country_data[p[1]]
                last_year == country_data[p[2]]
                years_span == last_year.Year - first_year.Year
            IN IF growth_is_defined(years_span, first_year.Value)
                 THEN [row |->
                         Some([Country |-> country,
                               Annual_Growth_Rate |->
                                 [null |-> last_year.Value = NaN,
                                  num |-> last_year.Value,
                                  den |-> first_year.Value,
                                  root |-> years_span],
                               Total_Growth |->
                                 [null |-> last_year.Value = NaN,
                                  num |-> 100 * (last_year.Value
                                                   - first_year.Value),
                                  den |-> first_year.Value],
                               Start_Year |-> first_year.Year,
                               End_Year |-> last_year.Year,
                               Latest_Consumption |-> last_year.Value]),
                       divisions |->
                         {[site |-> "annual_growth",
                           denominator |-> first_year.Value],
                          [site |-> "1/years_span",
                           denominator |-> years_span],
                          [site |-> "total_growth",
                           denominator |-> first_year.Value]}]
               ELSE [row |-> None, divisions |-> {}] :
            p \in FirstAndLast(country_data) }

\* the loop of lines 76-94 over the countries in the order of unique()
RECURSIVE growth_data(_, _)
growth_data(countries, subset) ==
  IF countries = << >> THEN {[rows |-> << >>, divisions |-> {}]}
  ELSE { [rows |-> (IF g.row = None THEN << >> ELSE << Get(g.row) >>)
                     \o rest.rows,
          divisions |-> g.divisions \cup rest.divisions] :
           g \in GrowthOf(Head(countries), subset),
           rest \in growth_data(Tail(countries), subset) }

\* sections/energy.py lines 73-96
energy_growth ==
  /\ "energy" \in DOMAIN arg
  /\ \E selected_measure \in Selectbox(measure_options) :
       LET subset == energy_subset(selected_measure)
           countries == UniqueInOrder([i \in 1..Len(subset.rows) |->
                                         subset.rows[i].Reference_area])
       IN \E data \in growth_data(countries, subset) :
            Analysed("energy_growth",
                     [selected_measure |-> selected_measure],
                     [df_growth |-> data.rows, divisions |-> data.divisions])

\* Series.max(): the greatest of the values that are not missing
MaxValue(rows) ==
  LET values == {rows[i].Value : i \in 1..Len(rows)} \ {NaN}
  IN IF values = {} THEN NaN
     ELSE CHOOSE v \in values : \A w \in values : w <= v

\* sections/energy.py lines 126-156: the deep dive of one country
energy_deep_dive ==
  /\ "energy" \in DOMAIN arg
  /\ \E selected_measure \in Selectbox(measure_options) :
       LET subset == energy_subset(selected_measure)
       IN \E selected_country \in Selectbox(Unique(subset, "Reference_area")) :
            LET df_country ==
                  SelectSeq(subset.rows,
                            LAMBDA r : selected_country # None
                                       /\ r.Reference_area = Get(selected_country))
                params == [selected_measure |-> selected_measure,
                           selected_country |-> selected_country]
                peak_val == MaxValue(df_country)
            IN IF Len(df_country) < 2
                 THEN Analysed("energy_deep_dive", params,
                               [fig_country |-> df_country # << >>,
                                metrics |-> None, divisions |-> {},
                                err |-> "none"])
               ELSE IF peak_val = NaN
                 \* df_country[df_country['Value'] == peak_val] has no row
                 THEN Analysed("energy_deep_dive", params,
                               [fig_country |-> TRUE, metrics |-> None,
                                divisions |-> {}, err |-> "IndexError"])
               ELSE \E p \in FirstAndLast(df_country) :
                      LET first_val == df_country[p[1]].Value
                          last_val == df_country[p[2]].Value
                          change == last_val - first_val
                      IN Analysed("energy_deep_dive", params,
                                  [fig_country |-> TRUE,
                                   metrics |->
                                     Some([Current_Level |-> last_val,
                                           Total_Change |->
                                             [null |-> first_val = NaN
                                                       \/ last_val = NaN,
                                              num |-> 100 * change,
                                              den |-> first_val],
                                           Peak_Consumption |-> peak_val]),
                                   divisions |->
                                     {[site |-> "Total Change",
                                       denominator |-> first_val]},
                                   err |-> "none"])

\* pd.merge(farm_latest, total_latest, on='Reference area'): an inner join,
\* in the order of the left rows
RECURSIVE merge_on_area(_, _)
merge_on_area(left, right) ==
  IF left = << >> THEN << >>
  ELSE LET matches == SelectSeq(right,
                                LAMBDA r : r.Reference_area
                                             = Head(left).Reference_area)
       IN [k \in 1..Len(matches) |->
             [Reference_area |-> Head(left).Reference_area,
              Value_farm |-> Head(left).Value,
              Value_total |-> matches[k].Value]]
            \o merge_on_area(Tail(left), right)

\* line 179: (Value_farm / Value_total) * 100, on every merged row
Efficiency_Ratio(row) ==
  [null |-> row.Value_farm = NaN \/ row.Value_total = NaN,
   num |-> 100 * row.Value_farm,
   den |-> row.Value_total]

\* the order of two ratios with positive denominators; a null ratio is last
RatioLess(a, b) ==
  /\ ~a.null
  /\ b.null \/ a.num * b.den < b.num * a.den

RatioEqual(a, b) == ~RatioLess(a, b) /\ ~RatioLess(b, a)

\* a stable sort on Efficiency_Ratio, smallest first, built row by row
RECURSIVE StableByRatio(_)
StableByRatio(rows) ==
  IF rows = << >> THEN << >>
  ELSE LET sorted == StableByRatio(SubSeq(rows, 1, Len(rows) - 1))
           r == rows[Len(rows)]
           k == Cardinality({i \in 1..Len(sorted) :
                               ~RatioLess(r.Efficiency_Ratio,
                                          sorted[i].Efficiency_Ratio)})
       IN SubSeq(sorted, 1, k) \o << r >> \o SubSeq(sorted, k + 1, Len(sorted))

\* the orderings of a sorted sequence that differ in the order of equal ratios
RECURSIVE RatioTieOrders(_)
RatioTieOrders(sorted) ==
  IF sorted = << >> THEN {<< >>}
  ELSE UNION { { << sorted[i] >> \o rest :
                   rest \in RatioTieOrders(SubSeq(sorted, 1, i - 1)
                                            \o SubSeq(sorted, i + 1,
                                                      Len(sorted))) } :
               i \in {j \in 1..Len(sorted) :
                        RatioEqual(sorted[j].Efficiency_Ratio,
                                   sorted[1].Efficiency_Ratio)} }

\* a slip: the latest year of the farm measure alone
latest_of_farm(farm_years, total_years) ==
  CHOOSE y \in farm_years : \A z \in farm_years : z <= y

\* max(farm_energy['Year'].max(), total_energy['Year'].max()) (line 170)
latest_of_both(farm_years, total_years) ==
  CHOOSE y \in farm_years \cup total_years :
    \A z \in farm_years \cup total_years : z <= y

\* DataFrame.tail(n)
LastRows(rows, n) ==
  SubSeq(rows, IF Len(rows) < n THEN 1 ELSE Len(rows) - n + 1, Len(rows))

\* lines 172-180 for the latest year: the merged rows with their ratio
rated(farm_energy, total_energy, latest) ==
  LET farm_latest == SelectSeq(farm_energy, LAMBDA r : r.Year = latest)
      total_latest == SelectSeq(total_energy, LAMBDA r : r.Year = latest)
      merged == merge_on_area(farm_latest, total_latest)
  IN [k \in 1..Len(merged) |->
        [Reference_area |-> merged[k].Reference_area,
         Value_farm |-> merged[k].Value_farm,
         Value_total |-> merged[k].Value_total,
         Efficiency_Ratio |-> Efficiency_Ratio(merged[k])]]

\* sort_values('Efficiency_Ratio'): not stable, null ratios last
sort_values_Efficiency_Ratio(rows) == RatioTieOrders(StableByRatio(rows))

\* sections/energy.py lines 161-204
energy_efficiency ==
  /\ "energy" \in DOMAIN arg
  /\ LET measures == {energy_filtered.rows[i].Measure :
                          i \in 1..Len(energy_filtered.rows)}
           farm_energy == SelectSeq(energy_filtered.rows,
                                    LAMBDA r : r.Measure = Farm)
           total_energy == SelectSeq(energy_filtered.rows,
                                     LAMBDA r : r.Measure = TotalFinal)
       IN IF ~(Farm \in measures /\ TotalFinal \in measures)
            THEN Analysed("energy_efficiency", << >>,
                          [rendered |-> FALSE, divisions |-> {}])
          ELSE \E latest \in {latest_of_both(
                                {farm_energy[i].Year : i \in 1..Len(farm_energy)},
                                {total_energy[i].Year : i \in 1..Len(total_energy)})} :
               \E with_ratio \in {rated(farm_energy, total_energy, latest)} :
               \E efficiency_df \in
                    sort_values_Efficiency_Ratio(
                      SelectSeq(with_ratio, LAMBDA r : r.Value_total # NaN
                                                       /\ r.Value_total > 1000)) :
                 Analysed("energy_efficiency", << >>,
                          [rendered |-> TRUE,
                           latest_year |-> latest,
                           efficiency_df |-> efficiency_df,
                           most_efficient |->
                             IF efficiency_df = << >> THEN None
                             ELSE Some(FirstRows(efficiency_df, 10)),
                           least_efficient |->
                             IF efficiency_df = << >> THEN None
                             ELSE Some(LastRows(efficiency_df, 10)),
                           divisions |->
                             {[site |-> "Efficiency_Ratio",
                               denominator |-> with_ratio[k].Value_total] :
                                k \in 1..Len(with_ratio)}])

\* observations of a country and measure, the latest first: n years from
\* `from` on, or all of the year `from` when flat; the earliest has the Value
\* first, the others 7, 8, ...
EnergySeries(a, m, shape) ==
  [i \in 1..shape.n |->
     EnergyRow(a,
               IF shape.flat THEN shape.from ELSE shape.from + (shape.n - i),
               m,
               IF i = shape.n THEN shape.first ELSE 6 + (shape.n - i))]

GrowthShapes ==
  {[n |-> 0, from |-> 1985, first |-> 5, flat |-> FALSE]}
    \cup {[n |-> n, from |-> from, first |-> first, flat |-> flat] :
            n \in {9, 10, MaxGrowthRows}, from \in {1984, 1985},
            first \in {0, 5, NaN, 0 - 3}, flat \in BOOLEAN}

\* the two measures in the latest years, for countries without a series
EfficiencyRows ==
  { << >>,
    \* a total above and one below 1000, and a country without the farm measure
    << EnergyRow("Mexico", 2021, Farm, 100),
       EnergyRow("Japan", 2021, TotalFinal, 500),
       EnergyRow("Mexico", 2021, TotalFinal, 2000),
       EnergyRow("Japan", 2021, Farm, 50),
       EnergyRow("Canada", 2021, TotalFinal, 5000) >>,
    \* the farm measure ends a year before the total
    << EnergyRow("Mexico", 2020, Farm, 100),
       EnergyRow("Mexico", 2020, TotalFinal, 3000),
       EnergyRow("Mexico", 2021, TotalFinal, 3100) >>,
    \* a total of 0 and a missing farm value
    << EnergyRow("Mexico", 2021, Farm, 100),
       EnergyRow("Mexico", 2021, TotalFinal, 0),
       EnergyRow("Japan", 2021, Farm, NaN),
       EnergyRow("Japan", 2021, TotalFinal, 4000),
       EnergyRow("Canada", 2021, Farm, 40),
       EnergyRow("Canada", 2021, TotalFinal, 4000) >>,
    \* more countries than a chart holds, the largest ratio first
    [i \in 1..22 |->
       IF i <= 11 THEN EnergyRow(RankAreas[i], 2021, Farm, 120 - i)
       ELSE EnergyRow(RankAreas[i - 11], 2021, TotalFinal, 2000)] }

EnergyFrames ==
  {Table(EnergySeries("France", Farm, shape) \o second \o latest) :
     shape \in GrowthShapes,
     second \in { << >>,
                  EnergySeries("Germany", TotalFinal,
                               [n |-> 10, from |-> 1985, first |-> 5,
                                flat |-> FALSE]) },
     latest \in EfficiencyRows}

\* sections/water.py lines 91-112 on df_selected: the trend of one country
\* and its percent change
water_country_trend ==
  /\ "df_selected" \in DOMAIN arg
  /\ \E selected_country \in
          Selectbox(Unique(arg.df_selected, "Reference_area")) :
       LET df_country_trend ==
             IF selected_country = None THEN {}
             ELSE PerYear(arg.df_selected, "Reference_area",
                          Get(selected_country), "sum")
           years == {g.Year : g \in df_country_trend}
           ValueIn(y) == (CHOOSE g \in df_country_trend : g.Year = y).Value.sum
           first == ValueIn(CHOOSE y \in years : \A z \in years : y <= z)
           last == ValueIn(CHOOSE y \in years : \A z \in years : z <= y)
           params == [selected_country |-> selected_country]
       IN IF df_country_trend = {}
            THEN Analysed("water_country_trend", params,
                          [fig_country |-> df_country_trend,
                           metrics |-> None, divisions |-> {}])
          ELSE Analysed("water_country_trend", params,
                        [fig_country |-> df_country_trend,
                         metrics |->
                           Some([delta |-> last - first,
                                 percent_change |->
                                   IF first > 0
                                     THEN [null |-> FALSE,
                                           num |-> 100 * (last - first),
                                           den |-> first]
                                   ELSE [null |-> FALSE, num |-> 0, den |-> 1]]),
                         divisions |->
                           IF first > 0
                             THEN {[site |-> "percent_change",
                                    denominator |-> first]}
                           ELSE {}])

\* pd.merge(agri_filtered, area_filtered, on=["Reference area", "Year"]): an
\* inner join, in the order of the left rows
RECURSIVE merge_on_area_and_year(_, _)
merge_on_area_and_year(left, right) ==
  IF left = << >> THEN << >>
  ELSE LET matches ==
             SelectSeq(right,
                       LAMBDA r : /\ r.Reference_area = Head(left).Reference_area
                                  /\ r.Year = Head(left).Year)
       IN [k \in 1..Len(matches) |->
             [Reference_area |-> Head(left).Reference_area,
              Year |-> Head(left).Year,
              Value_surplus |-> Head(left).Value,
              Value_area |-> matches[k].Value]]
            \o merge_on_area_and_year(Tail(left), right)

\* sections/environment.py lines 22-24 and 118-121: the surplus per hectare
\* of every merged row
environment_surplus_per_hectare ==
  /\ "agri" \in DOMAIN arg
  /\ \E nutrient \in Selectbox(Unique(arg.agri, "Nutrients")) :
       LET agri_filtered ==
             SelectSeq(arg.agri.rows,
                       LAMBDA r : /\ nutrient # None
                                  /\ r.Nutrients = Get(nutrient)
                                  /\ r.Year >= EnvFromYear)
           area_filtered ==
             SelectSeq(arg.area.rows, LAMBDA r : ContainsArable(r.Measure))
       IN \E merged \in {merge_on_area_and_year(agri_filtered,
                                                area_filtered)} :
            Analysed("environment_surplus_per_hectare",
                     [nutrient |-> nutrient],
                     [df_norm |->
                        [k \in 1..Len(merged) |->
                           [Reference_area |-> merged[k].Reference_area,
                            Year |-> merged[k].Year,
                            Surplus_per_hectare |->
                              [null |-> merged[k].Value_surplus = NaN
                                        \/ merged[k].Value_area = NaN,
                               num |-> merged[k].Value_surplus,
                               den |-> merged[k].Value_area]]],
                      divisions |->
                        {[site |-> "Surplus per hectare",
                          denominator |-> merged[k].Value_area] :
                           k \in 1..Len(merged)}])

\* render_card on a current and a previous value: line 76 divides inside the
\* test of line 75
kpi_card_delta ==
  /\ "current" \in DOMAIN arg
  /\ LET card == render_card("Nitrogen Surplus", arg.current, arg.previous)
     IN Analysed("kpi_card_delta", << >>,
                 [card |-> card,
                  divisions |->
                    IF card.delta = None THEN {}
                    ELSE {[site |-> "change",
                           denominator |-> Get(arg.previous).sum]}])

\* df_selected of sections/water.py: one measure from 2012 on
WaterTrendFrames ==
  {Table(rows) :
     rows \in SeqsUpTo({ Row("France", year, "Agriculture freshwater abstraction",
                             value, "Millions", "Cubic metres", NA) :
                           year \in {2012, 2013}, value \in {0, 4, NaN} }
                         \cup { Row("Germany", 2012,
                                    "Agriculture freshwater abstraction", 6,
                                    "Millions", "Cubic metres", NA) },
                       2)}

\* agri and area of sections/environment.py
SurplusFrames ==
  {[agri |-> Table(<< Row("France", 2015, "Nutrient balance", 6, "Units",
                          "Kilograms per hectare", "Nitrogen"),
                      Row("Germany", 2015, "Nutrient balance", 4, "Units",
                          "Kilograms per hectare", "Nitrogen"),
                      Row("France", 2011, "Nutrient balance", 3, "Units",
                          "Kilograms per hectare", "Nitrogen") >>),
     area |-> Table(rows)] :
     rows \in SeqsUpTo({ Row(country, year, "Arable land", value, "Thousands",
                             "Hectares", NA) :
                           country \in {"France", "Germany"},
                           year \in {2015, 2011},
                           value \in {0, 5} }
                         \cup { Row("France", 2015, "Permanent crops", 0,
                                    "Thousands", "Hectares", NA) },
                       1)}

\* a current value, and a previous value or None
CardInputs ==
  {[current |-> current, previous |-> previous] :
     current \in {[sum |-> 0, n |-> 0], Whole(0), Whole(3)},
     previous \in {None, Some([sum |-> 0, n |-> 0]), Some(Whole(0)),
                   Some(Whole(0 - 2)), Some(Whole(3))}}

InitRatio ==
  /\ AppOff
  /\ fn = "input"
  /\ arg \in {[energy |-> f] : f \in EnergyFrames}
              \cup {[df_selected |-> f] : f \in WaterTrendFrames}
              \cup SurplusFrames
              \cup CardInputs
  /\ res = None
  /\ ref = None

NextRatio ==
  \/ energy_growth
  \/ energy_deep_dive
  \/ energy_efficiency
  \/ water_country_trend
  \/ environment_surplus_per_hectare
  \/ kpi_card_delta

SpecRatio == InitRatio /\ [][NextRatio]_vars

\* C28 (as claimed): no division of a run has a denominator of 0: the KPI
\* delta (previous value), the growth rates and the deep dive's Total Change
\* of the energy section (first-year Value), the percent change of the water
\* trend (first-year Value), the efficiency ratio (total energy Value) and the
\* surplus per hectare (arable-land Value).
C28_NoZeroDenominator ==
  res # None =>
    \A d \in Get(res).out.divisions : d.denominator # 0

\* the positions of the observations of a country for a measure from 1985 on
ObservationsOf(country, measure) ==
  {i \in 1..Len(arg.energy.rows) :
     /\ arg.energy.rows[i].Reference_area = country
     /\ arg.energy.rows[i].Measure = measure
     /\ arg.energy.rows[i].Year >= 1985}

YearsOf(country, measure) ==
  {arg.energy.rows[i].Year : i \in ObservationsOf(country, measure)}

EarliestYear(country, measure) ==
  CHOOSE y \in YearsOf(country, measure) :
    \A z \in YearsOf(country, measure) : y <= z

LatestYear(country, measure) ==
  CHOOSE y \in YearsOf(country, measure) :
    \A z \in YearsOf(country, measure) : z <= y

\* the Values the country has in its earliest year
FirstYearValues(country, measure) ==
  {arg.energy.rows[i].Value :
     i \in {j \in ObservationsOf(country, measure) :
              arg.energy.rows[j].Year = EarliestYear(country, measure)}}

\* at least 10 observations over more than one year
HasASeries(country, measure) ==
  /\ Cardinality(ObservationsOf(country, measure)) >= 10
  /\ LatestYear(country, measure) - EarliestYear(country, measure) > 0

TotalAbove1000(country, year) ==
  \E i \in ObservationsOf(country, TotalFinal) :
    /\ arg.energy.rows[i].Year = year
    /\ arg.energy.rows[i].Value # NaN
    /\ arg.energy.rows[i].Value > 1000

\* the years in which a country has both measures
CommonYears(country) == YearsOf(country, Farm) \cap YearsOf(country, TotalFinal)

LatestCommonYear(country) ==
  CHOOSE y \in CommonYears(country) : \A z \in CommonYears(country) : z <= y

\* the efficiency rows are in ascending order of the ratio
AscendingByRatio(rows) ==
  \A k \in 1..(Len(rows) - 1) :
    ~RatioLess(rows[k + 1].Efficiency_Ratio, rows[k].Efficiency_Ratio)

\* C30, what the analysis holds: it is rendered only when both measures occur
\* from 1985 on; its table has only countries with both measures in the
\* latest year and a total above 1000, in ascending order of the ratio, and
\* each of the two charts holds at most 10 of them.
EfficiencyTableIsAsDescribed ==
  (res # None /\ Get(res).fn = "energy_efficiency") =>
    LET out == Get(res).out
        areas == Unique(arg.energy, "Reference_area")
    IN out.rendered =>
         /\ \E c \in areas : ObservationsOf(c, Farm) # {}
         /\ \E c \in areas : ObservationsOf(c, TotalFinal) # {}
         /\ \A k \in 1..Len(out.efficiency_df) :
              LET c == out.efficiency_df[k].Reference_area
              IN /\ out.latest_year \in CommonYears(c)
                 /\ TotalAbove1000(c, out.latest_year)
         /\ AscendingByRatio(out.efficiency_df)
         /\ out.most_efficient # None =>
              /\ Len(Get(out.most_efficient)) <= 10
              /\ Len(Get(out.least_efficient)) <= 10

\* C30, when the charts are shown: whenever both measures are present and
\* some country has both, with a total above 1000, in its own latest common
\* year, the two charts are shown.
EfficiencyChartsAreShown ==
  (res # None /\ Get(res).fn = "energy_efficiency") =>
    LET out == Get(res).out
        areas == Unique(arg.energy, "Reference_area")
    IN (\E c \in areas :
          /\ CommonYears(c) # {}
          /\ TotalAbove1000(c, LatestCommonYear(c)))
         => /\ out.rendered
            /\ out.most_efficient # None
            /\ out.least_efficient # None

\* C30 (as claimed): the efficiency analysis is as described and its charts
\* are shown whenever some country has both measures with a total above 1000
\* in its latest common year.
C30_EfficiencyAnalysis ==
  EfficiencyTableIsAsDescribed /\ EfficiencyChartsAreShown

====
